---- MODULE Spec2Model ----
(***************************************************************************)
(* Session booking and lifecycle of the mentoring backend                  *)
(* (src/src/sessions/sessions.service.ts).  Time is counted in minutes     *)
(* since a Sunday 00:00; a Date is the number of minutes since then.       *)
(***************************************************************************)
EXTENDS Integers, Sequences, FiniteSets, TLC

VARIABLES
  now,                 \* the clock: what new Date() and Date.now() return
  sessions,            \* the session table; a session's id is its index
  mentorStats,         \* the counters of the mentorProfile rows
  menteeStats,         \* the counters of the menteeProfile rows
  mentorAvailability,  \* the mentorAvailability table
  last,                \* what the last finished call returned or threw
  justCreated,         \* the last successful createSession: its id and its window
  calls,               \* the createSession calls in flight, per client
  query                \* the last read-only call: its arguments and its answer

vars == <<now, sessions, mentorStats, menteeStats, mentorAvailability, last,
          justCreated, calls, query>>

----------------------------------------------------------------------------
(* Bounds of the model *)

MaxSessions == 2
MaxLifecycleSessions == 1
NumSlots == 2
NumGridTimes == 4
MaxWindows == 2
MaxPatterns == 2

(* Program constants *)

EarlyStartMinutes == 15
FullRefundHours == 24
PartialRefundHours == 2
MinutesPerHour == 60
HoursPerDay == 24
DaysPerWeek == 7
SlotStepMinutes == 30

MinutesPerDay == HoursPerDay * MinutesPerHour

(* a null Date / absent optional field *)
NoTime == 0 - 1
NoId == 0
NoUser == "null"
NoReason == "null"

----------------------------------------------------------------------------
(* The stored profiles: the rows the prisma client reads *)

MentorProfiles ==
  [ m1 |-> [userId |-> "um1", verificationStatus |-> "APPROVED",
            isAcceptingStudents |-> TRUE,
            minSessionDuration |-> 30, maxSessionDuration |-> 60],
    m2 |-> [userId |-> "um2", verificationStatus |-> "APPROVED",
            isAcceptingStudents |-> TRUE,
            minSessionDuration |-> 30, maxSessionDuration |-> 60],
    m3 |-> [userId |-> "um3", verificationStatus |-> "PENDING",
            isAcceptingStudents |-> TRUE,
            minSessionDuration |-> 30, maxSessionDuration |-> 60],
    m4 |-> [userId |-> "um4", verificationStatus |-> "APPROVED",
            isAcceptingStudents |-> FALSE,
            minSessionDuration |-> 30, maxSessionDuration |-> 60] ]

MentorIds == DOMAIN MentorProfiles

MenteeProfiles ==
  [ e1 |-> [userId |-> "ue1"] ]

MenteeIds == DOMAIN MenteeProfiles

(* the users that book: "ux" has no mentee profile *)
Bookers == {"ue1", "ux"}
(* the users that act on a session: its mentor, its mentee, another mentor *)
Users == {"um1", "um2", "ue1"}

(* the mentor ids a caller may name; "m0" is not stored *)
MentorIdInputs == MentorIds \cup {"m0"}

(* menteeProfile.findUnique({ where: { userId } }) *)
MenteeProfileOfUser(userId) ==
  {e \in MenteeIds : MenteeProfiles[e].userId = userId}

----------------------------------------------------------------------------
(* The inputs of the calls *)

(* Tuesday 09:00 of the first week *)
FirstSlot == 2 * MinutesPerDay + 9 * MinutesPerHour

(* candidate starts, half an hour apart *)
Starts == {FirstSlot + i * 30 : i \in 0 .. NumSlots - 1}
Durations == {15, 30, 60, 90}
(* an absent durationMinutes of the update dto is 0, an absent scheduledAt
   is NoTime *)
UpdateDurations == {0, 30, 60}
UpdateStarts == Starts \cup {NoTime}
Reasons == {"personal emergency"}
Procs == {"p1", "p2"}

(* the instants at which the clock is read: the boundaries of the start
   window and of the refund tiers of a session at FirstSlot *)
ClockOffsets ==
  { FullRefundHours * MinutesPerHour, FullRefundHours * MinutesPerHour - 1,
    PartialRefundHours * MinutesPerHour,
    PartialRefundHours * MinutesPerHour - 1,
    EarlyStartMinutes + 1, EarlyStartMinutes, 0 }

ClockInstants == {0} \cup {FirstSlot - o : o \in ClockOffsets}

(* the clock of the booking runs: long before the first slot, and when a
   session at the first slot may start *)
BookingInstants == {0, FirstSlot - EarlyStartMinutes}

----------------------------------------------------------------------------
(* Date accessors *)

getDay(t) == (t \div MinutesPerDay) % DaysPerWeek
getHours(t) == (t % MinutesPerDay) \div MinutesPerHour
getMinutes(t) == t % MinutesPerHour

(* the minute of the day of a Date *)
extractTimeMinutes(date) == getHours(date) * MinutesPerHour + getMinutes(date)

(* new Date('YYYY-MM-DD') of the day of an instant: its midnight *)
DateOf(t) == t - (t % MinutesPerDay)

----------------------------------------------------------------------------
(* checkAvailability *)

(* a filter that forgets the sessions in progress *)
ActiveStatusesScheduledOnly == {"SCHEDULED"}

ActiveStatuses == {"SCHEDULED", "IN_PROGRESS"}

(* a filter that keeps only the first clause *)
SessionConflictsFirstClauseOnly(s, datetime, endTime) ==
  s.scheduledAt <= datetime /\ s.scheduledEndAt > datetime

(* a filter that also matches a session that only touches the candidate *)
SessionConflictsTouching(s, datetime, endTime) ==
  \/ (s.scheduledAt <= datetime /\ s.scheduledEndAt >= datetime)
  \/ (s.scheduledAt <= endTime /\ s.scheduledEndAt >= endTime)
  \/ (s.scheduledAt >= datetime /\ s.scheduledEndAt <= endTime)

(* the OR of the three AND clauses of the findFirst filter *)
SessionConflicts(s, datetime, endTime) ==
  \/ (s.scheduledAt <= datetime /\ s.scheduledEndAt > datetime)
  \/ (s.scheduledAt < endTime /\ s.scheduledEndAt >= endTime)
  \/ (s.scheduledAt >= datetime /\ s.scheduledEndAt <= endTime)

(* the rows session.findFirst may return *)
ConflictingSessions(rows, mentorId, datetime, durationMinutes, excludeSessionId) ==
  LET endTime == datetime + durationMinutes
  IN {i \in DOMAIN rows :
        /\ rows[i].mentorProfileId = mentorId
        /\ (excludeSessionId # NoId => i # excludeSessionId)
        /\ rows[i].status \in ActiveStatuses
        /\ SessionConflicts(rows[i], datetime, endTime)}

(* the rows mentorAvailability.findFirst may return *)
MatchingAvailability(windows, mentorId, datetime) ==
  {w \in windows : /\ w.mentorId = mentorId
                   /\ w.dayOfWeek = getDay(datetime)
                   /\ w.isAvailable}

WindowResult(w, datetime, durationMinutes) ==
  LET timeMinutes == getHours(datetime) * MinutesPerHour + getMinutes(datetime)
      endTimeMinutes == timeMinutes + durationMinutes
      availStart == getHours(w.startTime) * MinutesPerHour + getMinutes(w.startTime)
      availEnd == getHours(w.endTime) * MinutesPerHour + getMinutes(w.endTime)
  IN IF timeMinutes < availStart \/ endTimeMinutes > availEnd
       THEN [isAvailable |-> FALSE, message |-> "outside window",
             conflictingSessionId |-> NoId]
       ELSE [isAvailable |-> TRUE, message |-> "available",
             conflictingSessionId |-> NoId]

(* every result the call can return on the stored rows: findFirst has no
   orderBy, so any matching row may be the one it returns *)
checkAvailability(rows, windows, mentorId, datetime, durationMinutes, excludeSessionId) ==
  LET conflicting == ConflictingSessions(rows, mentorId, datetime,
                                         durationMinutes, excludeSessionId)
      matching == MatchingAvailability(windows, mentorId, datetime)
  IN IF conflicting # {}
       THEN {[isAvailable |-> FALSE, message |-> "conflict",
              conflictingSessionId |-> i] : i \in conflicting}
       ELSE IF matching = {}
         THEN {[isAvailable |-> FALSE, message |-> "not available on this day",
                conflictingSessionId |-> NoId]}
         ELSE {WindowResult(w, datetime, durationMinutes) : w \in matching}

----------------------------------------------------------------------------
(* AvailabilityService.getAvailableSlots *)

Min(a, b) == IF a < b THEN a ELSE b

(* "HH:MM" as the pair of its two numbers *)
minutesToTimeString(minutes) ==
  <<minutes \div MinutesPerHour, minutes % MinutesPerHour>>

(* a test that also drops a slot that only touches a session *)
SlotConflictsTouching(slotStart, slotEnd, sessionStart, sessionEnd) ==
  slotStart <= sessionEnd /\ slotEnd >= sessionStart

(* the test of bookedSessions.some *)
SlotConflicts(slotStart, slotEnd, sessionStart, sessionEnd) ==
  slotStart < sessionEnd /\ slotEnd > sessionStart

(* the rows of the mentorAvailability.findMany of getAvailableSlots *)
AvailabilitiesOfDate(windows, mentorId, targetDate) ==
  {w \in windows : /\ w.mentorId = mentorId
                   /\ w.dayOfWeek = getDay(targetDate)
                   /\ w.isAvailable
                   /\ (w.isRecurring \/ w.specificDate = targetDate)}

(* the rows of its session.findMany: the active sessions that start between
   00:00 and 23:59:59.999 of the date *)
BookedSessions(rows, mentorId, targetDate) ==
  {rows[i] : i \in {j \in DOMAIN rows :
     /\ rows[j].mentorProfileId = mentorId
     /\ rows[j].scheduledAt >= targetDate
     /\ rows[j].scheduledAt <= targetDate + MinutesPerDay - 1
     /\ rows[j].status \in {"SCHEDULED", "IN_PROGRESS"}}}

(* the while loop over one window, from slotStart on *)
RECURSIVE SlotsFrom(_, _, _, _, _)
SlotsFrom(slotStart, availEnd, durationMinutes, bookedSessions, date) ==
  IF slotStart + durationMinutes <= availEnd
    THEN LET slotEnd == slotStart + durationMinutes
             hasConflict ==
               \E session \in bookedSessions :
                 SlotConflicts(slotStart, slotEnd,
                               extractTimeMinutes(session.scheduledAt),
                               extractTimeMinutes(session.scheduledEndAt))
             rest == SlotsFrom(slotStart + Min(durationMinutes, SlotStepMinutes),
                               availEnd, durationMinutes, bookedSessions, date)
         IN IF hasConflict
              THEN rest
              ELSE <<[date |-> date,
                      startTime |-> minutesToTimeString(slotStart),
                      endTime |-> minutesToTimeString(slotEnd),
                      durationMinutes |-> durationMinutes,
                      isAvailable |-> TRUE]>> \o rest
    ELSE <<>>

(* the for loop over the windows, in the order of their startTime *)
RECURSIVE SlotsOfWindows(_, _, _, _)
SlotsOfWindows(availabilities, durationMinutes, bookedSessions, date) ==
  IF availabilities = {}
    THEN <<>>
    ELSE LET availability == CHOOSE w \in availabilities :
                               \A v \in availabilities : w.startTime <= v.startTime
         IN SlotsFrom(extractTimeMinutes(availability.startTime),
                      extractTimeMinutes(availability.endTime),
                      durationMinutes, bookedSessions, date)
            \o SlotsOfWindows(availabilities \ {availability}, durationMinutes,
                              bookedSessions, date)

(* date is the Date of 'YYYY-MM-DD'; durationMinutes is positive *)
getAvailableSlots(rows, windows, mentorId, date, durationMinutes) ==
  LET availabilities == AvailabilitiesOfDate(windows, mentorId, date)
  IN IF availabilities = {}
       THEN <<>>
       ELSE SlotsOfWindows(availabilities, durationMinutes,
                           BookedSessions(rows, mentorId, date), date)

----------------------------------------------------------------------------
(* helpers of the service *)

isMentor(s, userId) == MentorProfiles[s.mentorProfileId].userId = userId
isMentee(s, userId) == MenteeProfiles[s.menteeProfileId].userId = userId

(* tiers that give the full refund only beyond 24 hours *)
RefundPercentageExclusive(minutesUntil) ==
  IF minutesUntil > FullRefundHours * MinutesPerHour THEN 100
  ELSE IF minutesUntil >= PartialRefundHours * MinutesPerHour THEN 50
  ELSE 0

(* the refund tier of cancelSession; minutesUntil = scheduledAt - Date.now() *)
RefundPercentage(minutesUntil) ==
  IF minutesUntil >= FullRefundHours * MinutesPerHour THEN 100
  ELSE IF minutesUntil >= PartialRefundHours * MinutesPerHour THEN 50
  ELSE 0

(* the two statuses the wrong way round *)
CancelStatusSwapped(s, userId) ==
  IF isMentor(s, userId) THEN "CANCELLED_BY_MENTEE" ELSE "CANCELLED_BY_MENTOR"

(* the status cancelSession writes *)
CancelStatus(s, userId) ==
  IF isMentor(s, userId) THEN "CANCELLED_BY_MENTOR" ELSE "CANCELLED_BY_MENTEE"

(* guards that let a started session be cancelled, and any session be
   completed *)
CanCancelWhileBlocking(status) == status = "SCHEDULED" \/ status = "IN_PROGRESS"
CanCompleteAlways(status) == TRUE

(* the status guards of the calls *)
CanCancel(status) == status = "SCHEDULED"
CanStart(status) == status = "SCHEDULED"
CanComplete(status) == status = "IN_PROGRESS" \/ status = "SCHEDULED"
CanUpdate(status) == status = "SCHEDULED"

(* a test that refuses the start exactly 15 minutes ahead *)
TooEarlyToStartInclusive(minutesUntilStart) == minutesUntilStart >= EarlyStartMinutes

(* the early start test of startSession *)
TooEarlyToStart(minutesUntilStart) == minutesUntilStart > EarlyStartMinutes

Returned(op, refund) ==
  [op |-> op, result |-> "ok", refundPercentage |-> refund]

(* the exception class is what the caller branches on *)
Thrown(op, error, message) ==
  [op |-> op, result |-> error, refundPercentage |-> 0]

NewSession(mentorId, menteeId, scheduledAt, durationMinutes) ==
  [mentorProfileId |-> mentorId, menteeProfileId |-> menteeId,
   scheduledAt |-> scheduledAt,
   scheduledEndAt |-> scheduledAt + durationMinutes,
   durationMinutes |-> durationMinutes, status |-> "SCHEDULED",
   cancelledAt |-> NoTime, cancelledById |-> NoUser,
   cancellationReason |-> NoReason,
   startedAt |-> NoTime, completedAt |-> NoTime]

(* an increment by two *)
IncrementTotalTwice(stats, id) ==
  [stats EXCEPT ![id].totalSessions = @ + 2]

(* totalSessions: { increment: 1 } *)
IncrementTotal(stats, id) ==
  [stats EXCEPT ![id].totalSessions = @ + 1]

(* an increment by two *)
IncrementCompletedTwice(stats, id) ==
  [stats EXCEPT ![id].completedSessions = @ + 2]

IncrementCompleted(stats, id) ==
  [stats EXCEPT ![id].completedSessions = @ + 1]

(* a validation that does not look at isAcceptingStudents *)
CreateValidationNoAcceptingCheck(userId, mentorId, scheduledAt, durationMinutes, clock) ==
  IF MenteeProfileOfUser(userId) = {}
    THEN <<"NotFound", "Mentee profile not found">>
  ELSE IF mentorId \notin MentorIds
    THEN <<"NotFound", "Mentor not found">>
  ELSE IF MentorProfiles[mentorId].verificationStatus # "APPROVED"
    THEN <<"Forbidden", "Mentor is not approved for sessions">>
  ELSE IF scheduledAt <= clock
    THEN <<"BadRequest", "Session must be scheduled in the future">>
  ELSE IF durationMinutes < MentorProfiles[mentorId].minSessionDuration
    THEN <<"BadRequest", "Duration must be at least min">>
  ELSE IF durationMinutes > MentorProfiles[mentorId].maxSessionDuration
    THEN <<"BadRequest", "Duration cannot exceed max">>
  ELSE <<"ok", "">>

(* steps 1 to 4 of createSession: the first exception thrown, or "ok" *)
CreateValidation(userId, mentorId, scheduledAt, durationMinutes, clock) ==
  IF MenteeProfileOfUser(userId) = {}
    THEN <<"NotFound", "Mentee profile not found">>
  ELSE IF mentorId \notin MentorIds
    THEN <<"NotFound", "Mentor not found">>
  ELSE IF MentorProfiles[mentorId].verificationStatus # "APPROVED"
    THEN <<"Forbidden", "Mentor is not approved for sessions">>
  ELSE IF ~MentorProfiles[mentorId].isAcceptingStudents
    THEN <<"Forbidden", "Mentor is not currently accepting students">>
  ELSE IF scheduledAt <= clock
    THEN <<"BadRequest", "Session must be scheduled in the future">>
  ELSE IF durationMinutes < MentorProfiles[mentorId].minSessionDuration
    THEN <<"BadRequest", "Duration must be at least min">>
  ELSE IF durationMinutes > MentorProfiles[mentorId].maxSessionDuration
    THEN <<"BadRequest", "Duration cannot exceed max">>
  ELSE <<"ok", "">>

(* no read-only call made yet *)
NoQuery == [op |-> "none"]

IdleCall ==
  [op |-> "none", pc |-> "idle", result |-> "none", userId |-> NoUser,
   mentorId |-> "m0",
   scheduledAt |-> NoTime, durationMinutes |-> 0, sessionId |-> NoId]

----------------------------------------------------------------------------
(* The state after construction: no session, no call in flight *)

(* m1 is available on Tuesdays 09:00 to 10:00, m2 on Tuesdays 09:00 to 09:30,
   every week *)
InitialAvailability ==
  { [id |-> 1, mentorId |-> "m1", dayOfWeek |-> getDay(FirstSlot),
     startTime |-> 9 * MinutesPerHour, endTime |-> 10 * MinutesPerHour,
     isRecurring |-> TRUE, specificDate |-> NoTime, isAvailable |-> TRUE],
    [id |-> 2, mentorId |-> "m2", dayOfWeek |-> getDay(FirstSlot),
     startTime |-> 9 * MinutesPerHour, endTime |-> 9 * MinutesPerHour + 30,
     isRecurring |-> TRUE, specificDate |-> NoTime, isAvailable |-> TRUE] }

Init ==
  /\ now = 0
  /\ sessions = <<>>
  /\ mentorStats = [m \in MentorIds |-> [totalSessions |-> 0, completedSessions |-> 0]]
  /\ menteeStats = [e \in MenteeIds |-> [totalSessions |-> 0, completedSessions |-> 0]]
  /\ mentorAvailability = InitialAvailability
  /\ last = Returned("none", 0)
  /\ justCreated = [id |-> NoId, scheduledAt |-> NoTime, durationMinutes |-> 0]
  /\ calls = [p \in Procs |-> IdleCall]
  /\ query = NoQuery

----------------------------------------------------------------------------
(* The calls, one at a time *)

Throw(op, error, message) ==
  /\ last' = Thrown(op, error, message)
  /\ UNCHANGED <<query, now, sessions, mentorStats, menteeStats, mentorAvailability,
                 justCreated, calls>>

(* what a createSession call on this state can end with: the exception of
   steps 1 to 5, or "ok" when the call goes on to the insert *)
CreateOutcomes(rows, windows, clock, userId, mentorId, scheduledAt, durationMinutes) ==
  LET v == CreateValidation(userId, mentorId, scheduledAt, durationMinutes, clock)
  IN IF v[1] # "ok"
       THEN {v[1]}
       ELSE {IF r.isAvailable THEN "ok" ELSE "Conflict" :
               r \in checkAvailability(rows, windows, mentorId, scheduledAt,
                                       durationMinutes, NoId)}

createSession(maxSessions, userId, mentorId, scheduledAt, durationMinutes) ==
  \E outcome \in CreateOutcomes(sessions, mentorAvailability, now, userId,
                                mentorId, scheduledAt, durationMinutes) :
    IF outcome # "ok"
      THEN Throw("createSession", outcome, "")
      ELSE LET menteeId == CHOOSE e \in MenteeProfileOfUser(userId) : TRUE
           IN /\ Len(sessions) < maxSessions
              /\ sessions' = Append(sessions,
                   NewSession(mentorId, menteeId, scheduledAt, durationMinutes))
              /\ mentorStats' = IncrementTotal(mentorStats, mentorId)
              /\ menteeStats' = IncrementTotal(menteeStats, menteeId)
              /\ last' = Returned("createSession", 0)
              /\ justCreated' = [id |-> Len(sessions) + 1,
                                  scheduledAt |-> scheduledAt,
                                  durationMinutes |-> durationMinutes]
              /\ UNCHANGED <<query, now, mentorAvailability, calls>>

updateSession(id, userId, scheduledAt, durationMinutes) ==
  IF id \notin DOMAIN sessions
    THEN Throw("updateSession", "NotFound", "Session not found")
  ELSE IF ~isMentor(sessions[id], userId) /\ ~isMentee(sessions[id], userId)
    THEN Throw("updateSession", "Forbidden", "You are not a participant in this session")
  ELSE IF ~CanUpdate(sessions[id].status)
    THEN Throw("updateSession", "Forbidden", "Can only update scheduled sessions")
  ELSE IF scheduledAt # NoTime /\ scheduledAt <= now
    THEN Throw("updateSession", "BadRequest", "New time must be in the future")
  ELSE LET duration == IF durationMinutes # 0 THEN durationMinutes
                       ELSE sessions[id].durationMinutes
           write == /\ sessions' = [sessions EXCEPT
                         ![id].scheduledAt =
                            IF scheduledAt # NoTime THEN scheduledAt ELSE @,
                         ![id].scheduledEndAt =
                            IF scheduledAt # NoTime THEN scheduledAt + duration ELSE @,
                         ![id].durationMinutes =
                            IF durationMinutes # 0 THEN durationMinutes ELSE @]
                    /\ last' = Returned("updateSession", 0)
                    /\ UNCHANGED <<query, now, mentorStats, menteeStats,
                                   mentorAvailability, justCreated, calls>>
       IN IF scheduledAt # NoTime
            THEN \E r \in checkAvailability(sessions, mentorAvailability,
                             sessions[id].mentorProfileId, scheduledAt, duration, id) :
                   IF ~r.isAvailable
                     THEN Throw("updateSession", "Conflict", r.message)
                     ELSE write
            ELSE write

cancelSession(id, userId, reason) ==
  IF id \notin DOMAIN sessions
    THEN Throw("cancelSession", "NotFound", "Session not found")
  ELSE IF ~isMentor(sessions[id], userId) /\ ~isMentee(sessions[id], userId)
    THEN Throw("cancelSession", "Forbidden", "You are not a participant in this session")
  ELSE IF ~CanCancel(sessions[id].status)
    THEN Throw("cancelSession", "Forbidden", "Can only cancel scheduled sessions")
  ELSE /\ sessions' = [sessions EXCEPT
             ![id].status = CancelStatus(sessions[id], userId),
             ![id].cancelledAt = now,
             ![id].cancelledById = userId,
             ![id].cancellationReason = reason]
       /\ last' = Returned("cancelSession",
                           RefundPercentage(sessions[id].scheduledAt - now))
       /\ UNCHANGED <<query, now, mentorStats, menteeStats, mentorAvailability,
                      justCreated, calls>>

startSession(id, mentorUserId) ==
  IF id \notin DOMAIN sessions
    THEN Throw("startSession", "NotFound", "Session not found")
  ELSE IF ~isMentor(sessions[id], mentorUserId)
    THEN Throw("startSession", "Forbidden", "Only the mentor can start the session")
  ELSE IF ~CanStart(sessions[id].status)
    THEN Throw("startSession", "Forbidden", "Session is not in SCHEDULED status")
  ELSE IF TooEarlyToStart(sessions[id].scheduledAt - now)
    THEN Throw("startSession", "Forbidden",
               "Session can only be started within 15 minutes of scheduled time")
  ELSE /\ sessions' = [sessions EXCEPT ![id].status = "IN_PROGRESS",
                                       ![id].startedAt = now]
       /\ last' = Returned("startSession", 0)
       /\ UNCHANGED <<query, now, mentorStats, menteeStats, mentorAvailability,
                      justCreated, calls>>

completeSession(id, mentorUserId) ==
  IF id \notin DOMAIN sessions
    THEN Throw("completeSession", "NotFound", "Session not found")
  ELSE IF ~isMentor(sessions[id], mentorUserId)
    THEN Throw("completeSession", "Forbidden", "Only the mentor can complete the session")
  ELSE IF ~CanComplete(sessions[id].status)
    THEN Throw("completeSession", "Forbidden",
               "Session must be in progress or scheduled to complete")
  ELSE /\ sessions' = [sessions EXCEPT ![id].status = "COMPLETED",
                                       ![id].completedAt = now]
       /\ mentorStats' = IncrementCompleted(mentorStats, sessions[id].mentorProfileId)
       /\ menteeStats' = IncrementCompleted(menteeStats, sessions[id].menteeProfileId)
       /\ last' = Returned("completeSession", 0)
       /\ UNCHANGED <<query, now, mentorAvailability, justCreated, calls>>

(* the clock moves on to a later instant *)
Tick(instants) ==
  /\ \E t \in instants : t > now /\ now' = t
  /\ UNCHANGED <<query, sessions, mentorStats, menteeStats, mentorAvailability, last,
                 justCreated, calls>>

(* booking: two sessions, a coarse clock *)
Next ==
  \/ \E u \in Bookers, m \in MentorIdInputs, t \in Starts, d \in Durations :
       createSession(MaxSessions, u, m, t, d)
  \/ \E id \in 1 .. MaxSessions, u \in Users, t \in UpdateStarts, d \in UpdateDurations :
       updateSession(id, u, t, d)
  \/ \E id \in 1 .. MaxSessions, u \in Users, r \in Reasons : cancelSession(id, u, r)
  \/ \E id \in 1 .. MaxSessions, u \in Users : startSession(id, u)
  \/ \E id \in 1 .. MaxSessions, u \in Users : completeSession(id, u)
  \/ Tick(BookingInstants)

Spec == Init /\ [][Next]_vars

(* lifecycle: one session, the clock at every boundary of the time rules *)
LifecycleNext ==
  \/ \E u \in Bookers, m \in MentorIdInputs, t \in Starts, d \in Durations :
       createSession(MaxLifecycleSessions, u, m, t, d)
  \/ \E id \in 1 .. MaxLifecycleSessions + 1, u \in Users, t \in UpdateStarts,
        d \in UpdateDurations :
       updateSession(id, u, t, d)
  \/ \E id \in 1 .. MaxLifecycleSessions + 1, u \in Users, r \in Reasons :
       cancelSession(id, u, r)
  \/ \E id \in 1 .. MaxLifecycleSessions + 1, u \in Users : startSession(id, u)
  \/ \E id \in 1 .. MaxLifecycleSessions + 1, u \in Users : completeSession(id, u)
  \/ Tick(ClockInstants)

LifecycleSpec == Init /\ [][LifecycleNext]_vars

----------------------------------------------------------------------------
(* createSession calls of several clients, interleaved at their awaits: the
   reads up to the conflict check, then the insert, then the counters *)

CreateCheck(p, userId, mentorId, scheduledAt, durationMinutes) ==
  /\ calls[p].pc = "idle"
  /\ \E outcome \in CreateOutcomes(sessions, mentorAvailability, now, userId,
                                   mentorId, scheduledAt, durationMinutes) :
       calls' = [calls EXCEPT ![p] =
                   [op |-> "createSession",
                    pc |-> IF outcome = "ok" THEN "checked" ELSE "done",
                    result |-> outcome, userId |-> userId, mentorId |-> mentorId,
                    scheduledAt |-> scheduledAt,
                    durationMinutes |-> durationMinutes, sessionId |-> NoId]]
  /\ UNCHANGED <<query, now, sessions, mentorStats, menteeStats, mentorAvailability,
                 last, justCreated>>

CreateInsert(p) ==
  /\ calls[p].pc = "checked"
  /\ Len(sessions) < MaxSessions
  /\ LET c == calls[p]
         menteeId == CHOOSE e \in MenteeProfileOfUser(c.userId) : TRUE
     IN /\ sessions' = Append(sessions,
              NewSession(c.mentorId, menteeId, c.scheduledAt, c.durationMinutes))
        /\ justCreated' = [id |-> Len(sessions) + 1, scheduledAt |-> c.scheduledAt,
                           durationMinutes |-> c.durationMinutes]
        /\ calls' = [calls EXCEPT ![p].pc = "inserted",
                                  ![p].sessionId = Len(sessions) + 1]
  /\ UNCHANGED <<query, now, mentorStats, menteeStats, mentorAvailability, last>>

CreateStats(p) ==
  /\ calls[p].pc = "inserted"
  /\ LET c == calls[p]
         menteeId == CHOOSE e \in MenteeProfileOfUser(c.userId) : TRUE
     IN /\ mentorStats' = IncrementTotal(mentorStats, c.mentorId)
        /\ menteeStats' = IncrementTotal(menteeStats, menteeId)
        /\ calls' = [calls EXCEPT ![p].pc = "done"]
  /\ UNCHANGED <<query, now, sessions, mentorAvailability, last, justCreated>>

ConcurrentNext ==
  \/ \E p \in Procs, u \in Bookers, m \in MentorIdInputs, t \in Starts, d \in Durations :
       CreateCheck(p, u, m, t, d)
  \/ \E p \in Procs : CreateInsert(p)
  \/ \E p \in Procs : CreateStats(p)

ConcurrentSpec == Init /\ [][ConcurrentNext]_vars

----------------------------------------------------------------------------
(* cancelSession, startSession and completeSession calls of several clients
   on a stored session, interleaved at their awaits: findByIdOrFail and the
   tests on what it read, then the update of the session, then, for
   completeSession, the transaction of the two counters *)

(* a call that has read the session: it goes on to its write when the tests
   on what it read pass, and ends with the exception otherwise *)
AfterRead(p, op, id, userId, error) ==
  calls' = [calls EXCEPT ![p] =
              [op |-> op, pc |-> IF error = "ok" THEN "read" ELSE "done",
               result |-> error, userId |-> userId, mentorId |-> "m0",
               scheduledAt |-> NoTime, durationMinutes |-> 0, sessionId |-> id]]

CancelRead(p, id, userId) ==
  /\ calls[p].pc = "idle"
  /\ AfterRead(p, "cancelSession", id, userId,
       IF id \notin DOMAIN sessions THEN "NotFound"
       ELSE IF ~isMentor(sessions[id], userId) /\ ~isMentee(sessions[id], userId)
         THEN "Forbidden"
       ELSE IF ~CanCancel(sessions[id].status) THEN "Forbidden"
       ELSE "ok")
  /\ UNCHANGED <<query, now, sessions, mentorStats, menteeStats, mentorAvailability,
                 last, justCreated>>

CancelWrite(p, reason) ==
  /\ calls[p].op = "cancelSession" /\ calls[p].pc = "read"
  /\ LET id == calls[p].sessionId
     IN sessions' = [sessions EXCEPT
           ![id].status = CancelStatus(sessions[id], calls[p].userId),
           ![id].cancelledAt = now,
           ![id].cancelledById = calls[p].userId,
           ![id].cancellationReason = reason]
  /\ calls' = [calls EXCEPT ![p].pc = "done"]
  /\ UNCHANGED <<query, now, mentorStats, menteeStats, mentorAvailability, last,
                 justCreated>>

StartRead(p, id, mentorUserId) ==
  /\ calls[p].pc = "idle"
  /\ AfterRead(p, "startSession", id, mentorUserId,
       IF id \notin DOMAIN sessions THEN "NotFound"
       ELSE IF ~isMentor(sessions[id], mentorUserId) THEN "Forbidden"
       ELSE IF ~CanStart(sessions[id].status) THEN "Forbidden"
       ELSE IF TooEarlyToStart(sessions[id].scheduledAt - now) THEN "Forbidden"
       ELSE "ok")
  /\ UNCHANGED <<query, now, sessions, mentorStats, menteeStats, mentorAvailability,
                 last, justCreated>>

StartWrite(p) ==
  /\ calls[p].op = "startSession" /\ calls[p].pc = "read"
  /\ sessions' = [sessions EXCEPT ![calls[p].sessionId].status = "IN_PROGRESS",
                                  ![calls[p].sessionId].startedAt = now]
  /\ calls' = [calls EXCEPT ![p].pc = "done"]
  /\ UNCHANGED <<query, now, mentorStats, menteeStats, mentorAvailability, last,
                 justCreated>>

CompleteRead(p, id, mentorUserId) ==
  /\ calls[p].pc = "idle"
  /\ AfterRead(p, "completeSession", id, mentorUserId,
       IF id \notin DOMAIN sessions THEN "NotFound"
       ELSE IF ~isMentor(sessions[id], mentorUserId) THEN "Forbidden"
       ELSE IF ~CanComplete(sessions[id].status) THEN "Forbidden"
       ELSE "ok")
  /\ UNCHANGED <<query, now, sessions, mentorStats, menteeStats, mentorAvailability,
                 last, justCreated>>

CompleteWrite(p) ==
  /\ calls[p].op = "completeSession" /\ calls[p].pc = "read"
  /\ sessions' = [sessions EXCEPT ![calls[p].sessionId].status = "COMPLETED",
                                  ![calls[p].sessionId].completedAt = now]
  /\ calls' = [calls EXCEPT ![p].pc = "updated"]
  /\ UNCHANGED <<query, now, mentorStats, menteeStats, mentorAvailability, last,
                 justCreated>>

(* the ids of the two profiles are those the call read at its start *)
CompleteStats(p) ==
  /\ calls[p].op = "completeSession" /\ calls[p].pc = "updated"
  /\ LET session == sessions[calls[p].sessionId]
     IN /\ mentorStats' = IncrementCompleted(mentorStats, session.mentorProfileId)
        /\ menteeStats' = IncrementCompleted(menteeStats, session.menteeProfileId)
  /\ calls' = [calls EXCEPT ![p].pc = "done"]
  /\ UNCHANGED <<query, now, sessions, mentorAvailability, last, justCreated>>

(* one session of m1 and e1 at the first slot has been created; the clock is
   long before it, or where the session may start *)
RaceInit ==
  /\ now \in BookingInstants
  /\ sessions = <<NewSession("m1", "e1", FirstSlot, 30)>>
  /\ mentorStats = [m \in MentorIds |->
                      [totalSessions |-> IF m = "m1" THEN 1 ELSE 0,
                       completedSessions |-> 0]]
  /\ menteeStats = [e \in MenteeIds |->
                      [totalSessions |-> IF e = "e1" THEN 1 ELSE 0,
                       completedSessions |-> 0]]
  /\ mentorAvailability = InitialAvailability
  /\ last = Returned("createSession", 0)
  /\ justCreated = [id |-> 1, scheduledAt |-> FirstSlot, durationMinutes |-> 30]
  /\ calls = [p \in Procs |-> IdleCall]
  /\ query = NoQuery

RaceNext ==
  \/ \E p \in Procs, id \in 1 .. MaxSessions, u \in Users : CancelRead(p, id, u)
  \/ \E p \in Procs, r \in Reasons : CancelWrite(p, r)
  \/ \E p \in Procs, id \in 1 .. MaxSessions, u \in Users : StartRead(p, id, u)
  \/ \E p \in Procs : StartWrite(p)
  \/ \E p \in Procs, id \in 1 .. MaxSessions, u \in Users : CompleteRead(p, id, u)
  \/ \E p \in Procs : CompleteWrite(p)
  \/ \E p \in Procs : CompleteStats(p)

RaceSpec == RaceInit /\ [][RaceNext]_vars

----------------------------------------------------------------------------
(* createSession when the storage rejects a write.  The insert and the
   counter update are two separate awaits; an exception of either leaves
   the call through the async function. *)

(* prisma.session.create rejects: nothing was stored *)
createSessionInsertFails(userId, mentorId, scheduledAt, durationMinutes) ==
  /\ "ok" \in CreateOutcomes(sessions, mentorAvailability, now, userId,
                             mentorId, scheduledAt, durationMinutes)
  /\ Throw("createSession", "InternalServerError", "")

(* prisma.$transaction of the two counter updates rejects: the session of
   the earlier await stays stored *)
createSessionStatsFails(maxSessions, userId, mentorId, scheduledAt, durationMinutes) ==
  /\ "ok" \in CreateOutcomes(sessions, mentorAvailability, now, userId,
                             mentorId, scheduledAt, durationMinutes)
  /\ Len(sessions) < maxSessions
  /\ LET menteeId == CHOOSE e \in MenteeProfileOfUser(userId) : TRUE
     IN sessions' = Append(sessions,
          NewSession(mentorId, menteeId, scheduledAt, durationMinutes))
  /\ last' = Thrown("createSession", "InternalServerError", "")
  /\ UNCHANGED <<query, now, mentorStats, menteeStats, mentorAvailability,
                 justCreated, calls>>

FaultNext ==
  \/ \E u \in Bookers, m \in MentorIdInputs, t \in Starts, d \in Durations :
       createSession(MaxSessions, u, m, t, d)
  \/ \E u \in Bookers, m \in MentorIdInputs, t \in Starts, d \in Durations :
       createSessionInsertFails(u, m, t, d)
  \/ \E u \in Bookers, m \in MentorIdInputs, t \in Starts, d \in Durations :
       createSessionStatsFails(MaxSessions, u, m, t, d)
  \/ \E id \in 1 .. MaxSessions, u \in Users, r \in Reasons : cancelSession(id, u, r)
  \/ Tick(BookingInstants)

FaultSpec == Init /\ [][FaultNext]_vars

----------------------------------------------------------------------------
(* checkAvailability called on its own: a read-only call whose possible
   answers are kept in query *)

checkAvailabilityCall(mentorId, datetime, durationMinutes) ==
  /\ query' = [op |-> "checkAvailability", mentorId |-> mentorId,
               datetime |-> datetime, durationMinutes |-> durationMinutes,
               results |-> checkAvailability(sessions, mentorAvailability,
                             mentorId, datetime, durationMinutes, NoId)]
  /\ UNCHANGED <<now, sessions, mentorStats, menteeStats, mentorAvailability,
                 last, justCreated, calls>>

(* instants a quarter of an hour apart from the first slot on *)
GridTimes == {FirstSlot + 15 * k : k \in 0 .. NumGridTimes - 1}
GridDurations == {15 * k : k \in 1 .. NumGridTimes - 1}

(* one scheduled session of m1 on any interval of the grid *)
OverlapInit ==
  /\ now = 0
  /\ \E s \in GridTimes, d \in GridDurations :
       /\ s + d \in GridTimes
       /\ sessions = <<NewSession("m1", "e1", s, d)>>
  /\ mentorStats = [m \in MentorIds |->
       [totalSessions |-> IF m = "m1" THEN 1 ELSE 0, completedSessions |-> 0]]
  /\ menteeStats = [e \in MenteeIds |-> [totalSessions |-> 1, completedSessions |-> 0]]
  /\ mentorAvailability = InitialAvailability
  /\ last = Returned("createSession", 0)
  /\ justCreated = [id |-> 1, scheduledAt |-> sessions[1].scheduledAt,
                    durationMinutes |-> sessions[1].durationMinutes]
  /\ calls = [p \in Procs |-> IdleCall]
  /\ query = NoQuery

OverlapNext ==
  \E m \in {"m1", "m2"}, t \in GridTimes, d \in GridDurations :
    checkAvailabilityCall(m, t, d)

OverlapSpec == OverlapInit /\ [][OverlapNext]_vars

----------------------------------------------------------------------------
(* checkAvailability on the windows a mentor can have declared *)

(* windows of m1 that addAvailability accepts in any combination: no two of
   them intersect.  Two recurring Tuesday windows back to back, a Tuesday
   window for the Tuesday of the following week only, one for the Tuesday of
   the first slot only, a recurring Wednesday window and a disabled one. *)
WindowPool ==
  { [id |-> 1, mentorId |-> "m1", dayOfWeek |-> 2,
     startTime |-> 9 * MinutesPerHour, endTime |-> 9 * MinutesPerHour + 30,
     isRecurring |-> TRUE, specificDate |-> NoTime, isAvailable |-> TRUE],
    [id |-> 2, mentorId |-> "m1", dayOfWeek |-> 2,
     startTime |-> 9 * MinutesPerHour + 30, endTime |-> 10 * MinutesPerHour + 30,
     isRecurring |-> TRUE, specificDate |-> NoTime, isAvailable |-> TRUE],
    [id |-> 3, mentorId |-> "m1", dayOfWeek |-> 2,
     startTime |-> 11 * MinutesPerHour, endTime |-> 12 * MinutesPerHour,
     isRecurring |-> FALSE,
     specificDate |-> DateOf(FirstSlot) + DaysPerWeek * MinutesPerDay,
     isAvailable |-> TRUE],
    [id |-> 4, mentorId |-> "m1", dayOfWeek |-> 2,
     startTime |-> 12 * MinutesPerHour, endTime |-> 13 * MinutesPerHour,
     isRecurring |-> FALSE, specificDate |-> DateOf(FirstSlot),
     isAvailable |-> TRUE],
    [id |-> 5, mentorId |-> "m1", dayOfWeek |-> 3,
     startTime |-> 9 * MinutesPerHour, endTime |-> 10 * MinutesPerHour,
     isRecurring |-> TRUE, specificDate |-> NoTime, isAvailable |-> TRUE],
    [id |-> 6, mentorId |-> "m1", dayOfWeek |-> 2,
     startTime |-> 13 * MinutesPerHour, endTime |-> 14 * MinutesPerHour,
     isRecurring |-> TRUE, specificDate |-> NoTime, isAvailable |-> FALSE] }

(* candidate starts on the Tuesday of the first slot *)
WindowStarts ==
  {DateOf(FirstSlot) + h * MinutesPerHour + m : h \in {9, 11, 12, 13}, m \in {0, 30}}

WindowInit ==
  /\ now = 0
  /\ sessions = <<>>
  /\ mentorStats = [m \in MentorIds |-> [totalSessions |-> 0, completedSessions |-> 0]]
  /\ menteeStats = [e \in MenteeIds |-> [totalSessions |-> 0, completedSessions |-> 0]]
  /\ mentorAvailability \in SUBSET WindowPool
  /\ last = Returned("none", 0)
  /\ justCreated = [id |-> NoId, scheduledAt |-> NoTime, durationMinutes |-> 0]
  /\ calls = [p \in Procs |-> IdleCall]
  /\ query = NoQuery

WindowNext ==
  \E t \in WindowStarts, d \in {30, 60} : checkAvailabilityCall("m1", t, d)

WindowSpec == WindowInit /\ [][WindowNext]_vars

----------------------------------------------------------------------------
(* getAvailableSlots on the windows of the pool and a few session tables *)

getAvailableSlotsCall(mentorId, date, durationMinutes) ==
  /\ query' =
       IF mentorId \notin MentorIds
         THEN [op |-> "getAvailableSlots", mentorId |-> mentorId, date |-> date,
               durationMinutes |-> durationMinutes, result |-> "NotFound",
               slots |-> <<>>]
         ELSE [op |-> "getAvailableSlots", mentorId |-> mentorId, date |-> date,
               durationMinutes |-> durationMinutes, result |-> "ok",
               slots |-> getAvailableSlots(sessions, mentorAvailability,
                                           mentorId, date, durationMinutes)]
  /\ UNCHANGED <<now, sessions, mentorStats, menteeStats, mentorAvailability,
                 last, justCreated, calls>>

(* the Tuesday of the first slot, the Wednesday after it, the next Tuesday *)
SlotDates ==
  {DateOf(FirstSlot), DateOf(FirstSlot) + MinutesPerDay,
   DateOf(FirstSlot) + DaysPerWeek * MinutesPerDay}

SlotDurations == {15, 30, 45, 60}

(* session tables: empty; m1 booked 09:30-10:00; 09:00-09:30 and
   10:00-10:30; 12:15-12:45; a cancelled 09:30-10:00; the next Tuesday
   11:00-12:00; m2 booked 09:00-09:30 *)
SlotSessionTables ==
  LET day == DateOf(FirstSlot)
      at(h, m) == day + h * MinutesPerHour + m
  IN { <<>>,
       <<NewSession("m1", "e1", at(9, 30), 30)>>,
       <<NewSession("m1", "e1", at(9, 0), 30), NewSession("m1", "e1", at(10, 0), 30)>>,
       <<NewSession("m1", "e1", at(12, 15), 30)>>,
       <<[NewSession("m1", "e1", at(9, 30), 30) EXCEPT
            !.status = "CANCELLED_BY_MENTEE", !.cancelledAt = 0,
            !.cancelledById = "ue1", !.cancellationReason = "personal emergency"]>>,
       <<NewSession("m1", "e1", at(11, 0) + DaysPerWeek * MinutesPerDay, 60)>>,
       <<NewSession("m2", "e1", at(9, 0), 30)>> }

SlotInit ==
  /\ now = 0
  /\ sessions \in SlotSessionTables
  /\ mentorStats = [m \in MentorIds |->
       [totalSessions |-> Cardinality({i \in DOMAIN sessions :
                                        sessions[i].mentorProfileId = m}),
        completedSessions |-> 0]]
  /\ menteeStats = [e \in MenteeIds |->
       [totalSessions |-> Len(sessions), completedSessions |-> 0]]
  /\ mentorAvailability \in SUBSET WindowPool
  /\ last = Returned("none", 0)
  /\ justCreated = [id |-> NoId, scheduledAt |-> NoTime, durationMinutes |-> 0]
  /\ calls = [p \in Procs |-> IdleCall]
  /\ query = NoQuery

SlotNext ==
  \E m \in {"m1", "m0"}, date \in SlotDates, d \in SlotDurations :
    getAvailableSlotsCall(m, date, d)

SlotSpec == SlotInit /\ [][SlotNext]_vars

----------------------------------------------------------------------------
(* getAvailableSlots step by step: the controller parses the duration, the
   service reads the windows and the sessions, and every turn of the while
   loop is a step.  query is the frame of the call. *)

(* parseInt(duration, 10) || 60: a duration that parses to 0, or to no
   number, which 0 stands for, is 60 *)
ParsedDuration(duration) == IF duration = 0 THEN 60 ELSE duration

(* how far below midnight the model follows slotStart *)
MaxLoopDescent == 60

(* the windows in the order of the findMany: by startTime *)
RECURSIVE WindowsByStart(_)
WindowsByStart(availabilities) ==
  IF availabilities = {} THEN <<>>
  ELSE LET availability == CHOOSE w \in availabilities :
                             \A v \in availabilities : w.startTime <= v.startTime
       IN <<availability>> \o WindowsByStart(availabilities \ {availability})

SlotsBegin(mentorId, date, duration) ==
  /\ query = NoQuery
  /\ LET durationMinutes == ParsedDuration(duration)
         availabilities == WindowsByStart(
                             AvailabilitiesOfDate(mentorAvailability, mentorId, date))
         frame == [op |-> "getAvailableSlots", mentorId |-> mentorId,
                   date |-> date, durationMinutes |-> durationMinutes,
                   pc |-> "returned", result |-> "ok", slots |-> <<>>,
                   availabilities |-> <<>>, bookedSessions |-> {},
                   slotStart |-> 0, availEnd |-> 0, turns |-> 0]
     IN query' =
          IF mentorId \notin MentorIds
            THEN [frame EXCEPT !.result = "NotFound"]
          ELSE IF availabilities = <<>>
            THEN frame
          ELSE [frame EXCEPT
                  !.pc = "loop",
                  !.availabilities = Tail(availabilities),
                  !.bookedSessions = BookedSessions(sessions, mentorId, date),
                  !.slotStart = extractTimeMinutes(availabilities[1].startTime),
                  !.availEnd = extractTimeMinutes(availabilities[1].endTime)]
  /\ UNCHANGED <<now, sessions, mentorStats, menteeStats, mentorAvailability,
                 last, justCreated, calls>>

(* one turn of the while loop; turns is the parity of the number of turns
   made.  The values of slotStart below -MaxLoopDescent are folded into one:
   from there on the test of the loop and the step are what they were at
   -MaxLoopDescent, and the slots pushed are no longer listed *)
SlotsIterate ==
  /\ query # NoQuery /\ query.pc = "loop"
  /\ query.slotStart + query.durationMinutes <= query.availEnd
  /\ LET slotStart == query.slotStart
         slotEnd == slotStart + query.durationMinutes
         hasConflict ==
           \E session \in query.bookedSessions :
             SlotConflicts(slotStart, slotEnd,
                           extractTimeMinutes(session.scheduledAt),
                           extractTimeMinutes(session.scheduledEndAt))
         next == slotStart + Min(query.durationMinutes, SlotStepMinutes)
     IN query' =
          IF next < 0 - MaxLoopDescent
            THEN [query EXCEPT !.turns = (@ + 1) % 2]
            ELSE [query EXCEPT
                    !.slots = IF hasConflict THEN @ ELSE Append(@, <<slotStart, slotEnd>>),
                    !.slotStart = next,
                    !.turns = (@ + 1) % 2]
  /\ UNCHANGED <<now, sessions, mentorStats, menteeStats, mentorAvailability,
                 last, justCreated, calls>>

(* the while loop of a window is over: the next window, or the return *)
SlotsLeaveWindow ==
  /\ query # NoQuery /\ query.pc = "loop"
  /\ ~(query.slotStart + query.durationMinutes <= query.availEnd)
  /\ query' =
       IF query.availabilities = <<>>
         THEN [query EXCEPT !.pc = "returned"]
         ELSE [query EXCEPT
                 !.availabilities = Tail(@),
                 !.slotStart = extractTimeMinutes(query.availabilities[1].startTime),
                 !.availEnd = extractTimeMinutes(query.availabilities[1].endTime)]
  /\ UNCHANGED <<now, sessions, mentorStats, menteeStats, mentorAvailability,
                 last, justCreated, calls>>

(* the values of the duration query parameter: absent, negative, positive *)
SlotQueryDurations == {0, -30, 15, 30, 45}

SlotLoopNext ==
  \/ \E m \in {"m1", "m0"}, date \in SlotDates, d \in SlotQueryDurations :
       SlotsBegin(m, date, d)
  \/ SlotsIterate
  \/ SlotsLeaveWindow

(* a call that has begun keeps running: the event loop runs the synchronous
   loop to its end when it has one *)
SlotLoopSpec ==
  /\ SlotInit
  /\ [][SlotLoopNext]_vars
  /\ WF_vars(SlotsIterate)
  /\ WF_vars(SlotsLeaveWindow)

----------------------------------------------------------------------------
(* AvailabilityService: the windows a mentor declares.  A time string
   "HH:MM" is the pair of its two numbers; a dto is a record that has the
   fields the caller sent. *)

timeStringToMinutes(timeString) ==
  timeString[1] * MinutesPerHour + timeString[2]

(* new Date() with setHours(hours, minutes, 0, 0) *)
parseTimeToDate(timeString, clock) ==
  DateOf(clock) + timeString[1] * MinutesPerHour + timeString[2]

Has(dto, field) == field \in DOMAIN dto

(* the exception of verifyMentorOwnership, or "ok" *)
verifyMentorOwnership(mentorId, userId) ==
  IF mentorId \notin MentorIds THEN "NotFound"
  ELSE IF MentorProfiles[mentorId].userId # userId THEN "Forbidden"
  ELSE "ok"

(* validateTimeRange does not throw *)
validateTimeRange(startTime, endTime) ==
  ~(timeStringToMinutes(startTime) >= timeStringToMinutes(endTime))

(* checkAvailabilityOverlap throws *)
checkAvailabilityOverlap(windows, mentorId, dayOfWeek, startTime, endTime) ==
  \E existing \in windows :
    /\ existing.mentorId = mentorId
    /\ existing.dayOfWeek = dayOfWeek
    /\ timeStringToMinutes(startTime) < extractTimeMinutes(existing.endTime)
    /\ timeStringToMinutes(endTime) > extractTimeMinutes(existing.startTime)

(* a test that also refuses two entries that only touch *)
checkPatternOverlapsTouching(patterns) ==
  \E i, j \in DOMAIN patterns :
    /\ i < j
    /\ patterns[i].dayOfWeek = patterns[j].dayOfWeek
    /\ timeStringToMinutes(patterns[i].startTime)
         <= timeStringToMinutes(patterns[j].endTime)
    /\ timeStringToMinutes(patterns[i].endTime)
         >= timeStringToMinutes(patterns[j].startTime)

(* checkPatternOverlaps throws *)
checkPatternOverlaps(patterns) ==
  \E i, j \in DOMAIN patterns :
    /\ i < j
    /\ patterns[i].dayOfWeek = patterns[j].dayOfWeek
    /\ timeStringToMinutes(patterns[i].startTime)
         < timeStringToMinutes(patterns[j].endTime)
    /\ timeStringToMinutes(patterns[i].endTime)
         > timeStringToMinutes(patterns[j].startTime)

(* the id of a new row: one that no stored row has *)
NewAvailabilityId(windows) ==
  CHOOSE i \in 1 .. MaxWindows + MaxPatterns :
    /\ \A w \in windows : w.id # i
    /\ \A j \in 1 .. i - 1 : \E w \in windows : w.id = j

addAvailability(mentorId, userId, createDto) ==
  IF verifyMentorOwnership(mentorId, userId) # "ok"
    THEN Throw("addAvailability", verifyMentorOwnership(mentorId, userId), "")
  ELSE IF ~validateTimeRange(createDto.startTime, createDto.endTime)
    THEN Throw("addAvailability", "BadRequest", "Start time must be before end time")
  ELSE IF checkAvailabilityOverlap(mentorAvailability, mentorId, createDto.dayOfWeek,
                                   createDto.startTime, createDto.endTime)
    THEN Throw("addAvailability", "BadRequest",
               "This availability overlaps with an existing slot")
  ELSE /\ Cardinality(mentorAvailability) < MaxWindows
       /\ mentorAvailability' = mentorAvailability \cup
            { [id |-> NewAvailabilityId(mentorAvailability),
               mentorId |-> mentorId,
               dayOfWeek |-> createDto.dayOfWeek,
               startTime |-> parseTimeToDate(createDto.startTime, now),
               endTime |-> parseTimeToDate(createDto.endTime, now),
               isRecurring |-> IF Has(createDto, "isRecurring")
                                 THEN createDto.isRecurring ELSE TRUE,
               specificDate |-> IF Has(createDto, "specificDate")
                                  THEN createDto.specificDate ELSE NoTime,
               isAvailable |-> IF Has(createDto, "isAvailable")
                                 THEN createDto.isAvailable ELSE TRUE] }
       /\ last' = Returned("addAvailability", 0)
       /\ UNCHANGED <<query, now, sessions, mentorStats, menteeStats,
                      justCreated, calls>>

updateAvailability(id, userId, updateDto) ==
  IF ~(\E w \in mentorAvailability : w.id = id)
    THEN Throw("updateAvailability", "NotFound", "Availability not found")
  ELSE LET availability == CHOOSE w \in mentorAvailability : w.id = id
           owner == verifyMentorOwnership(availability.mentorId, userId)
       IN IF owner # "ok"
            THEN Throw("updateAvailability", owner, "")
          ELSE IF /\ Has(updateDto, "startTime") /\ Has(updateDto, "endTime")
                  /\ ~validateTimeRange(updateDto.startTime, updateDto.endTime)
            THEN Throw("updateAvailability", "BadRequest",
                       "Start time must be before end time")
          ELSE /\ mentorAvailability' =
                    (mentorAvailability \ {availability}) \cup
                    { [availability EXCEPT
                         !.startTime = IF Has(updateDto, "startTime")
                                         THEN parseTimeToDate(updateDto.startTime, now)
                                         ELSE @,
                         !.endTime = IF Has(updateDto, "endTime")
                                       THEN parseTimeToDate(updateDto.endTime, now)
                                       ELSE @,
                         !.isRecurring = IF Has(updateDto, "isRecurring")
                                           THEN updateDto.isRecurring ELSE @,
                         !.specificDate = IF Has(updateDto, "specificDate")
                                            THEN updateDto.specificDate ELSE @,
                         !.isAvailable = IF Has(updateDto, "isAvailable")
                                           THEN updateDto.isAvailable ELSE @] }
               /\ last' = Returned("updateAvailability", 0)
               /\ UNCHANGED <<query, now, sessions, mentorStats, menteeStats,
                              justCreated, calls>>

deleteAvailability(id, userId) ==
  IF ~(\E w \in mentorAvailability : w.id = id)
    THEN Throw("deleteAvailability", "NotFound", "Availability not found")
  ELSE LET availability == CHOOSE w \in mentorAvailability : w.id = id
           owner == verifyMentorOwnership(availability.mentorId, userId)
       IN IF owner # "ok"
            THEN Throw("deleteAvailability", owner, "")
            ELSE /\ mentorAvailability' = mentorAvailability \ {availability}
                 /\ last' = Returned("deleteAvailability", 0)
                 /\ UNCHANGED <<query, now, sessions, mentorStats, menteeStats,
                                justCreated, calls>>

(* the create loop of bulkCreateWeeklyAvailability from pattern k on *)
RECURSIVE CreatePatterns(_, _, _, _, _)
CreatePatterns(windows, mentorId, patterns, k, clock) ==
  IF k > Len(patterns)
    THEN windows
    ELSE CreatePatterns(
           windows \cup
             { [id |-> NewAvailabilityId(windows),
                mentorId |-> mentorId,
                dayOfWeek |-> patterns[k].dayOfWeek,
                startTime |-> parseTimeToDate(patterns[k].startTime, clock),
                endTime |-> parseTimeToDate(patterns[k].endTime, clock),
                isRecurring |-> TRUE, specificDate |-> NoTime,
                isAvailable |-> TRUE] },
           mentorId, patterns, k + 1, clock)

bulkCreateWeeklyAvailability(mentorId, userId, weeklyPattern) ==
  IF verifyMentorOwnership(mentorId, userId) # "ok"
    THEN Throw("bulkCreateWeeklyAvailability",
               verifyMentorOwnership(mentorId, userId), "")
  ELSE IF \E k \in DOMAIN weeklyPattern :
            ~validateTimeRange(weeklyPattern[k].startTime, weeklyPattern[k].endTime)
    THEN Throw("bulkCreateWeeklyAvailability", "BadRequest",
               "Start time must be before end time")
  ELSE IF checkPatternOverlaps(weeklyPattern)
    THEN Throw("bulkCreateWeeklyAvailability", "BadRequest",
               "Overlapping availability slots on day")
  ELSE LET kept == {w \in mentorAvailability :
                      ~(w.mentorId = mentorId /\ w.isRecurring)}
       IN /\ Cardinality(kept) + Len(weeklyPattern) <= MaxWindows
          /\ mentorAvailability' =
               CreatePatterns(kept, mentorId, weeklyPattern, 1, now)
          /\ last' = Returned("bulkCreateWeeklyAvailability", 0)
          /\ UNCHANGED <<query, now, sessions, mentorStats, menteeStats,
                         justCreated, calls>>

(* the inputs of the availability calls *)
TimeStrings == {<<9, 0>>, <<10, 0>>, <<11, 0>>}
WindowDays == {1, 2}
WindowOwners == {"um1", "um2"}

CreateAvailabilityDtos ==
  [dayOfWeek : WindowDays, startTime : TimeStrings, endTime : TimeStrings]
  \cup [dayOfWeek : WindowDays, startTime : TimeStrings, endTime : TimeStrings,
        isRecurring : {FALSE}, specificDate : {DateOf(FirstSlot)}]

UpdateAvailabilityDtos ==
  [startTime : TimeStrings] \cup [endTime : TimeStrings]
  \cup [startTime : TimeStrings, endTime : TimeStrings]
  \cup [isAvailable : BOOLEAN]

(* the ranges of a weekly pattern: two back to back, one over both, one
   that ends before it starts *)
PatternRanges ==
  { <<<<9, 0>>, <<10, 0>>>>, <<<<10, 0>>, <<11, 0>>>>,
    <<<<9, 0>>, <<11, 0>>>>, <<<<10, 0>>, <<9, 0>>>> }

DayAvailabilityDtos ==
  {[dayOfWeek |-> d, startTime |-> r[1], endTime |-> r[2]] :
     d \in WindowDays, r \in PatternRanges}

WeeklyPatterns ==
  UNION {[1 .. n -> DayAvailabilityDtos] : n \in 0 .. MaxPatterns}

AvailabilityInit ==
  /\ now = 0
  /\ sessions = <<>>
  /\ mentorStats = [m \in MentorIds |-> [totalSessions |-> 0, completedSessions |-> 0]]
  /\ menteeStats = [e \in MenteeIds |-> [totalSessions |-> 0, completedSessions |-> 0]]
  /\ mentorAvailability = {}
  /\ last = Returned("none", 0)
  /\ justCreated = [id |-> NoId, scheduledAt |-> NoTime, durationMinutes |-> 0]
  /\ calls = [p \in Procs |-> IdleCall]
  /\ query = NoQuery

AvailabilityNext ==
  \/ \E m \in {"m1", "m0"}, u \in WindowOwners, dto \in CreateAvailabilityDtos :
       addAvailability(m, u, dto)
  \/ \E id \in 1 .. MaxWindows + 1, u \in WindowOwners, dto \in UpdateAvailabilityDtos :
       updateAvailability(id, u, dto)
  \/ \E id \in 1 .. MaxWindows + 1, u \in WindowOwners : deleteAvailability(id, u)
  \/ \E u \in WindowOwners, pattern \in WeeklyPatterns :
       bulkCreateWeeklyAvailability("m1", u, pattern)

AvailabilitySpec == AvailabilityInit /\ [][AvailabilityNext]_vars

(* the weekly pattern on its own: the tables it is declared on hold windows
   that addAvailability stored, a recurring one and one of a single date of
   m1 and a recurring one of m2 *)
BulkWindowPool ==
  { [id |-> 1, mentorId |-> "m1", dayOfWeek |-> 2,
     startTime |-> parseTimeToDate(<<9, 0>>, 0), endTime |-> parseTimeToDate(<<10, 0>>, 0),
     isRecurring |-> TRUE, specificDate |-> NoTime, isAvailable |-> TRUE],
    [id |-> 2, mentorId |-> "m1", dayOfWeek |-> 2,
     startTime |-> parseTimeToDate(<<10, 0>>, 0), endTime |-> parseTimeToDate(<<11, 0>>, 0),
     isRecurring |-> FALSE, specificDate |-> DateOf(FirstSlot), isAvailable |-> TRUE],
    [id |-> 3, mentorId |-> "m2", dayOfWeek |-> 1,
     startTime |-> parseTimeToDate(<<9, 0>>, 0), endTime |-> parseTimeToDate(<<10, 0>>, 0),
     isRecurring |-> TRUE, specificDate |-> NoTime, isAvailable |-> TRUE] }

BulkInit ==
  /\ now = 0
  /\ sessions = <<>>
  /\ mentorStats = [m \in MentorIds |-> [totalSessions |-> 0, completedSessions |-> 0]]
  /\ menteeStats = [e \in MenteeIds |-> [totalSessions |-> 0, completedSessions |-> 0]]
  /\ mentorAvailability \in {t \in SUBSET BulkWindowPool : Cardinality(t) <= MaxWindows}
  /\ last = Returned("none", 0)
  /\ justCreated = [id |-> NoId, scheduledAt |-> NoTime, durationMinutes |-> 0]
  /\ calls = [p \in Procs |-> IdleCall]
  /\ query = NoQuery

BulkNext ==
  \E u \in WindowOwners, pattern \in WeeklyPatterns :
    bulkCreateWeeklyAvailability("m1", u, pattern)

BulkSpec == BulkInit /\ [][BulkNext]_vars

----------------------------------------------------------------------------
(* MatchingService: the compatibility score of a mentor for a mentee.
   A score that the code holds as a double with one decimal is kept in
   tenths until Math.round; averageRating is kept in tenths as well. *)

WEIGHTS ==
  [LEARNER_CATEGORY |-> 100, ACCEPTED_LEVEL |-> 80, LANGUAGES |-> 80,
   LEARNING_CONTEXT |-> 50, BUDGET |-> 40, TIMEZONE |-> 30, RATING |-> 20]

TOTAL_WEIGHT ==
  WEIGHTS.LEARNER_CATEGORY + WEIGHTS.ACCEPTED_LEVEL + WEIGHTS.LANGUAGES
    + WEIGHTS.LEARNING_CONTEXT + WEIGHTS.BUDGET + WEIGHTS.TIMEZONE + WEIGHTS.RATING

(* Math.round of the non-negative quotient num / den: halves go up *)
Round(num, den) == (2 * num + den) \div (2 * den)

(* the totals t whose double (t / 400) * 100 lies just below the half that
   the exact quotient is, so that Math.round gives the integer below *)
TotalsRoundedDown == {58, 114, 226, 230}

(* Math.round((totalScore / TOTAL_WEIGHT) * 100) *)
FinalScore(totalScore) ==
  IF totalScore \in TotalsRoundedDown
    THEN Round(totalScore * 100, TOTAL_WEIGHT) - 1
    ELSE Round(totalScore * 100, TOTAL_WEIGHT)

Reason(category, score, isMatch) ==
  [category |-> category, weight |-> WEIGHTS[category], score |-> score,
   isMatch |-> isMatch]

scoreLearnerCategory(mentor, mentee) ==
  LET isMatch ==
        CASE mentee.learnerCategory = "CHILD" -> mentor.teachesChildren
          [] mentee.learnerCategory = "TEENAGER" -> mentor.teachesTeenagers
          [] mentee.learnerCategory = "ADULT" -> mentor.teachesAdults
          [] OTHER -> FALSE
  IN Reason("LEARNER_CATEGORY",
            IF isMatch THEN WEIGHTS.LEARNER_CATEGORY ELSE 0, isMatch)

scoreAcceptedLevel(mentor, mentee) ==
  LET isMatch == \E i \in DOMAIN mentor.acceptedLevels :
                   mentor.acceptedLevels[i] = mentee.currentLevel
  IN Reason("ACCEPTED_LEVEL", IF isMatch THEN WEIGHTS.ACCEPTED_LEVEL ELSE 0, isMatch)

scoreLanguages(mentor, mentee, preferences) ==
  LET menteeLanguages ==
        IF Has(preferences, "preferredLanguages")
           /\ Len(preferences.preferredLanguages) # 0
          THEN preferences.preferredLanguages
          ELSE mentee.preferredLanguages
      commonLanguages ==
        {i \in DOMAIN menteeLanguages :
           \E j \in DOMAIN mentor.languages :
             mentor.languages[j] = menteeLanguages[i]}
      score == IF Len(menteeLanguages) > 0
                 THEN Round(WEIGHTS.LANGUAGES * Cardinality(commonLanguages),
                            Len(menteeLanguages))
                 ELSE 0
  IN Reason("LANGUAGES", score, Cardinality(commonLanguages) > 0)

(* a bonus for beginners that is not capped at the weight *)
scoreLearningContextUncapped(mentor, mentee) ==
  LET newMuslim == mentee.learningContext = "NEW_MUSLIM"
      base == IF newMuslim /\ mentor.experiencedWithNewMuslims
                THEN WEIGHTS.LEARNING_CONTEXT * 10
              ELSE IF newMuslim THEN WEIGHTS.LEARNING_CONTEXT * 3
              ELSE WEIGHTS.LEARNING_CONTEXT * 5
      score == IF mentor.beginnerFriendly /\ mentee.currentLevel = "NO_ARABIC"
                 THEN base + 100
                 ELSE base
  IN Reason("LEARNING_CONTEXT", Round(score, 10),
            ~(newMuslim /\ ~mentor.experiencedWithNewMuslims))

scoreLearningContext(mentor, mentee) ==
  LET newMuslim == mentee.learningContext = "NEW_MUSLIM"
      base == IF newMuslim /\ mentor.experiencedWithNewMuslims
                THEN WEIGHTS.LEARNING_CONTEXT * 10
              ELSE IF newMuslim THEN WEIGHTS.LEARNING_CONTEXT * 3
              ELSE WEIGHTS.LEARNING_CONTEXT * 5
      score == IF mentor.beginnerFriendly /\ mentee.currentLevel = "NO_ARABIC"
                 THEN Min(base + 100, WEIGHTS.LEARNING_CONTEXT * 10)
                 ELSE base
  IN Reason("LEARNING_CONTEXT", Round(score, 10),
            ~(newMuslim /\ ~mentor.experiencedWithNewMuslims))

(* hourlyRate is 0 when the mentor has none *)
scoreBudget(mentor, preferences) ==
  IF mentor.freeSessionsOnly THEN Reason("BUDGET", WEIGHTS.BUDGET, TRUE)
  ELSE IF ~Has(preferences, "budgetPerSession")
    THEN Reason("BUDGET", (WEIGHTS.BUDGET * 5) \div 10, TRUE)
  ELSE IF mentor.hourlyRate <= preferences.budgetPerSession
    THEN Reason("BUDGET", WEIGHTS.BUDGET, TRUE)
  ELSE Reason("BUDGET", 0, FALSE)

(* a null or absent timezone or country is the empty string *)
scoreTimezone(mentor, mentee, preferences) ==
  LET menteeCountry == IF Has(preferences, "countryCode") /\ preferences.countryCode # ""
                         THEN preferences.countryCode ELSE mentee.user.countryCode
      menteeTimezone == IF Has(preferences, "timezone") /\ preferences.timezone # ""
                          THEN preferences.timezone ELSE mentee.user.timezone
      country == IF mentor.user.countryCode = menteeCountry
                   THEN WEIGHTS.TIMEZONE * 6 ELSE 0
      zone == IF mentor.user.timezone # "" /\ menteeTimezone # ""
                THEN IF mentor.user.timezone = menteeTimezone
                       THEN WEIGHTS.TIMEZONE * 4 ELSE WEIGHTS.TIMEZONE * 2
                ELSE 0
      score == country + zone
  IN Reason("TIMEZONE", Round(Min(score, WEIGHTS.TIMEZONE * 10), 10),
            score > WEIGHTS.TIMEZONE * 3)

scoreRating(mentor) ==
  LET rating == mentor.averageRating
      score == IF rating >= 45 THEN WEIGHTS.RATING * 10
               ELSE IF rating >= 40 THEN WEIGHTS.RATING * 8
               ELSE IF rating >= 35 THEN WEIGHTS.RATING * 5
               ELSE IF mentor.totalReviews = 0 THEN WEIGHTS.RATING * 5
               ELSE WEIGHTS.RATING * 2
  IN Reason("RATING", Round(score, 10), score >= WEIGHTS.RATING * 5)

getCompatibilityLevel(score) ==
  IF score >= 80 THEN "EXCELLENT"
  ELSE IF score >= 60 THEN "HIGH"
  ELSE IF score >= 40 THEN "MEDIUM"
  ELSE IF score >= 20 THEN "LOW"
  ELSE "POOR"

calculateCompatibility(mentor, mentee, preferences) ==
  LET reasons == << scoreLearnerCategory(mentor, mentee),
                    scoreAcceptedLevel(mentor, mentee),
                    scoreLanguages(mentor, mentee, preferences),
                    scoreLearningContext(mentor, mentee),
                    scoreBudget(mentor, preferences),
                    scoreTimezone(mentor, mentee, preferences),
                    scoreRating(mentor) >>
      totalScore == reasons[1].score + reasons[2].score + reasons[3].score
                      + reasons[4].score + reasons[5].score + reasons[6].score
                      + reasons[7].score
      finalScore == FinalScore(totalScore)
  IN [score |-> finalScore, level |-> getCompatibilityLevel(finalScore),
      reasons |-> reasons]

(* what findUnique gives for an id without a profile *)
NoProfile == [found |-> FALSE]

(* MatchingService.calculateCompatibilityScore: both profiles are looked up,
   the score is computed without preferences *)
calculateCompatibilityScore(mentor, mentee) ==
  IF mentor = NoProfile \/ mentee = NoProfile
    THEN [error |-> "NotFoundException"]
  ELSE LET compatibility == calculateCompatibility(mentor, mentee, <<>>)
       IN [score |-> compatibility.score, level |-> compatibility.level,
           reasons |-> compatibility.reasons,
           isRecommended |-> compatibility.score >= 60]

(* the profiles and preferences the score is computed for *)
ScoringMentors ==
  { [teachesChildren |-> tc, teachesTeenagers |-> FALSE, teachesAdults |-> TRUE,
     acceptedLevels |-> <<"NO_ARABIC", "BEGINNER">>,
     languages |-> <<"ar", "en">>,
     experiencedWithNewMuslims |-> ex, beginnerFriendly |-> bf,
     freeSessionsOnly |-> pay[1], hourlyRate |-> pay[2],
     averageRating |-> rev[1], totalReviews |-> rev[2],
     user |-> [countryCode |-> "FR", timezone |-> tz]] :
     tc \in BOOLEAN, ex \in BOOLEAN, bf \in BOOLEAN,
     pay \in {<<TRUE, 0>>, <<FALSE, 30>>},
     rev \in {<<0, 0>>, <<30, 5>>, <<35, 5>>, <<40, 5>>, <<45, 5>>},
     tz \in {"", "Europe/Paris"} }

ScoringMentees ==
  { [learnerCategory |-> cat, currentLevel |-> lvl, preferredLanguages |-> langs,
     learningContext |-> ctx,
     user |-> [countryCode |-> place[1], timezone |-> place[2]]] :
     cat \in {"CHILD", "ADULT"}, lvl \in {"NO_ARABIC", "INTERMEDIATE"},
     langs \in {<<>>, <<"ar", "fr", "ur">>, <<"ar", "ar", "fr">>},
     ctx \in {"NEW_MUSLIM", "GENERAL"},
     place \in {<<"FR", "Europe/Paris">>, <<"FR", "Africa/Casablanca">>,
                <<"MA", "Africa/Casablanca">>} }

ScoringPreferences ==
  { <<>>,
    [preferredLanguages |-> <<"en">>],
    [preferredLanguages |-> <<"zh", "ar", "en">>, budgetPerSession |-> 20],
    [budgetPerSession |-> 30, countryCode |-> "FR", timezone |-> "Europe/Paris"],
    [preferredLanguages |-> <<>>, budgetPerSession |-> 20, countryCode |-> "MA"] }

ScoringInit ==
  /\ now = 0
  /\ sessions = <<>>
  /\ mentorStats = [m \in MentorIds |-> [totalSessions |-> 0, completedSessions |-> 0]]
  /\ menteeStats = [e \in MenteeIds |-> [totalSessions |-> 0, completedSessions |-> 0]]
  /\ mentorAvailability = InitialAvailability
  /\ last = Returned("none", 0)
  /\ justCreated = [id |-> NoId, scheduledAt |-> NoTime, durationMinutes |-> 0]
  /\ calls = [p \in Procs |-> IdleCall]
  /\ query \in {[op |-> "none", mentor |-> m, mentee |-> e, preferences |-> p] :
                  m \in ScoringMentors \cup {NoProfile},
                  e \in ScoringMentees \cup {NoProfile},
                  p \in ScoringPreferences}

calculateCompatibilityCall ==
  /\ query.op = "none"
  /\ query.mentor # NoProfile /\ query.mentee # NoProfile
  /\ query' = [op |-> "calculateCompatibility", mentor |-> query.mentor,
               mentee |-> query.mentee, preferences |-> query.preferences,
               result |-> calculateCompatibility(query.mentor, query.mentee,
                                                 query.preferences)]
  /\ UNCHANGED <<now, sessions, mentorStats, menteeStats, mentorAvailability,
                 last, justCreated, calls>>

calculateCompatibilityScoreCall ==
  /\ query.op = "none"
  /\ query' = [op |-> "calculateCompatibilityScore", mentor |-> query.mentor,
               mentee |-> query.mentee, preferences |-> <<>>,
               result |-> calculateCompatibilityScore(query.mentor, query.mentee)]
  /\ UNCHANGED <<now, sessions, mentorStats, menteeStats, mentorAvailability,
                 last, justCreated, calls>>

ScoringNext == calculateCompatibilityCall \/ calculateCompatibilityScoreCall

ScoringSpec == ScoringInit /\ [][ScoringNext]_vars

(* MatchingService.getEligibleMentors: the approved, active mentors that
   accept students and pass the filters of the preferences, in the order of
   the table (findMany has no orderBy: the table stands for the order the
   database answers in).  hourlyRate 0 is a mentor without a rate. *)
getEligibleMentors(mentors, preferences) ==
  LET Eligible(mentor) ==
        /\ mentor.verificationStatus = "APPROVED"
        /\ mentor.isActive
        /\ mentor.isAcceptingStudents
        /\ (Has(preferences, "freeSessionsOnly") /\ preferences.freeSessionsOnly)
             => mentor.freeSessionsOnly
        /\ (Has(preferences, "requireFreeTrial") /\ preferences.requireFreeTrial)
             => mentor.freeTrialAvailable
        /\ Has(preferences, "minRating")
             => mentor.averageRating >= preferences.minRating
        /\ Has(preferences, "budgetPerSession")
             => \/ mentor.hourlyRate # 0
                   /\ mentor.hourlyRate <= preferences.budgetPerSession
                \/ mentor.freeSessionsOnly
  IN SelectSeq(mentors, Eligible)

(* at most the first n elements of a sequence: Array.prototype.slice(0, n) *)
Slice(seq, n) == SubSeq(seq, 1, Min(n, Len(seq)))

mapToRankedMentor(mentor, compatibility) ==
  LET IsMatch(reason) == reason.isMatch
  IN [id |-> mentor.id,
      compatibilityScore |-> compatibility.score,
      compatibilityLevel |-> compatibility.level,
      matchReasons |-> Slice(SelectSeq(compatibility.reasons, IsMatch), 5)]

(* one step of a sort that puts the new element before the elements of its
   own score *)
InsertByScoreBeforeTies(sorted, ranked) ==
  LET k == Cardinality({i \in DOMAIN sorted :
                          sorted[i].compatibilityScore > ranked.compatibilityScore})
  IN SubSeq(sorted, 1, k) \o <<ranked>> \o SubSeq(sorted, k + 1, Len(sorted))

(* one step of the stable sort by descending score: the element goes behind
   every element whose score is not lower *)
InsertByScore(sorted, ranked) ==
  LET k == Cardinality({i \in DOMAIN sorted :
                          sorted[i].compatibilityScore >= ranked.compatibilityScore})
  IN SubSeq(sorted, 1, k) \o <<ranked>> \o SubSeq(sorted, k + 1, Len(sorted))

(* rankedMentors.sort((a, b) => b.compatibilityScore - a.compatibilityScore) *)
RECURSIVE SortByScore(_)
SortByScore(rankedMentors) ==
  IF rankedMentors = <<>> THEN <<>>
  ELSE InsertByScore(SortByScore(SubSeq(rankedMentors, 1, Len(rankedMentors) - 1)),
                     rankedMentors[Len(rankedMentors)])

(* MatchingService.findCompatibleMentors *)
findCompatibleMentors(mentors, mentee, preferences) ==
  IF mentee = NoProfile THEN [error |-> "NotFoundException"]
  ELSE
    LET eligibleMentors == getEligibleMentors(mentors, preferences)
        all == [i \in DOMAIN eligibleMentors |->
                  mapToRankedMentor(eligibleMentors[i],
                    calculateCompatibility(eligibleMentors[i], mentee, preferences))]
        Kept(ranked) == ranked.compatibilityScore >= 20
        rankedMentors == SortByScore(SelectSeq(all, Kept))
        limit == IF Has(preferences, "limit") THEN preferences.limit ELSE 10
        limitedMentors == Slice(rankedMentors, limit)
    IN [total |-> Len(limitedMentors), mentors |-> limitedMentors]

(* the validation of FindMentorsDto by the global ValidationPipe *)
FindMentorsDtoValid(preferences) ==
  /\ Has(preferences, "limit") => preferences.limit \in 1 .. 50
  /\ Has(preferences, "budgetPerSession") => preferences.budgetPerSession >= 0
  /\ Has(preferences, "minRating") => preferences.minRating \in 0 .. 50

(* the mentor profiles of the ranking: an excellent one, a free one without
   experience, one that matches nothing, and one that takes no students *)
RankingMentorKinds ==
  LET best == [teachesChildren |-> FALSE, teachesTeenagers |-> FALSE,
               teachesAdults |-> TRUE,
               acceptedLevels |-> <<"NO_ARABIC", "BEGINNER">>,
               languages |-> <<"ar", "fr">>,
               experiencedWithNewMuslims |-> TRUE, beginnerFriendly |-> TRUE,
               freeSessionsOnly |-> FALSE, hourlyRate |-> 30,
               freeTrialAvailable |-> TRUE,
               averageRating |-> 45, totalReviews |-> 5,
               user |-> [countryCode |-> "FR", timezone |-> "Europe/Paris"],
               verificationStatus |-> "APPROVED", isActive |-> TRUE,
               isAcceptingStudents |-> TRUE]
  IN { best,
       [best EXCEPT !.freeSessionsOnly = TRUE, !.hourlyRate = 0,
                    !.experiencedWithNewMuslims = FALSE, !.averageRating = 40],
       [best EXCEPT !.teachesAdults = FALSE, !.acceptedLevels = <<"HAFIZ_COMPLETE">>,
                    !.languages = <<"zh">>, !.experiencedWithNewMuslims = FALSE,
                    !.beginnerFriendly = FALSE, !.averageRating = 20,
                    !.user = [countryCode |-> "CN", timezone |-> ""]],
       [best EXCEPT !.isAcceptingStudents = FALSE] }

MaxPool == 3
LongPool == 12

(* the tables of mentor profiles: every table of at most MaxPool mentors and
   one table of LongPool mentors; a mentor's id is its place in the table *)
RankingTables ==
  LET kinds == RankingMentorKinds
      short == UNION {[1 .. n -> kinds] : n \in 0 .. MaxPool}
      best == CHOOSE k \in kinds : k.isAcceptingStudents /\ k.teachesAdults
                                     /\ ~k.freeSessionsOnly
      free == CHOOSE k \in kinds : k.freeSessionsOnly
      long == [i \in 1 .. LongPool |-> IF i % 3 = 0 THEN best ELSE free]
  IN { [i \in DOMAIN table |-> [id |-> i] @@ table[i]] : table \in short \cup {long} }

RankingMentees ==
  { [learnerCategory |-> "ADULT", currentLevel |-> "NO_ARABIC",
     preferredLanguages |-> <<"fr", "ar">>, learningContext |-> "NEW_MUSLIM",
     user |-> [countryCode |-> "FR", timezone |-> "Europe/Paris"]],
    NoProfile }

(* the bodies of POST find-mentors, valid and not *)
RankingPreferences ==
  { <<>>, [limit |-> 0], [limit |-> 1], [limit |-> 2], [limit |-> 50],
    [limit |-> 51], [limit |-> 2, budgetPerSession |-> 20],
    [budgetPerSession |-> 40, minRating |-> 45],
    [freeSessionsOnly |-> TRUE, requireFreeTrial |-> TRUE] }

RankingInit ==
  /\ now = 0
  /\ sessions = <<>>
  /\ mentorStats = [m \in MentorIds |-> [totalSessions |-> 0, completedSessions |-> 0]]
  /\ menteeStats = [e \in MenteeIds |-> [totalSessions |-> 0, completedSessions |-> 0]]
  /\ mentorAvailability = InitialAvailability
  /\ last = Returned("none", 0)
  /\ justCreated = [id |-> NoId, scheduledAt |-> NoTime, durationMinutes |-> 0]
  /\ calls = [p \in Procs |-> IdleCall]
  /\ query \in {[op |-> "none", mentors |-> t, mentee |-> e, preferences |-> p] :
                  t \in RankingTables, e \in RankingMentees,
                  p \in RankingPreferences}

(* POST find-mentors: the body is validated, then the service is called *)
findCompatibleMentorsCall ==
  /\ query.op = "none"
  /\ query' = [op |-> "findCompatibleMentors", mentors |-> query.mentors,
               mentee |-> query.mentee, preferences |-> query.preferences,
               result |-> IF FindMentorsDtoValid(query.preferences)
                            THEN findCompatibleMentors(query.mentors, query.mentee,
                                                       query.preferences)
                            ELSE [error |-> "BadRequestException"]]
  /\ UNCHANGED <<now, sessions, mentorStats, menteeStats, mentorAvailability,
                 last, justCreated, calls>>

RankingNext == findCompatibleMentorsCall

RankingSpec == RankingInit /\ [][RankingNext]_vars

----------------------------------------------------------------------------
(* Properties *)

(* half-open interval intersection of two sessions *)
Intersect(a, b) ==
  a.scheduledAt < b.scheduledEndAt /\ b.scheduledAt < a.scheduledEndAt

Blocking(s) == s.status \in {"SCHEDULED", "IN_PROGRESS"}

DoubleBooked ==
  \E i, j \in DOMAIN sessions :
    /\ i < j
    /\ sessions[i].mentorProfileId = sessions[j].mentorProfileId
    /\ Blocking(sessions[i]) /\ Blocking(sessions[j])
    /\ Intersect(sessions[i], sessions[j])

(* C1: of two concurrent createSession calls for one provider and
   intersecting windows at most one returns a session (the other gets
   Conflict), and the table never holds two SCHEDULED/IN_PROGRESS sessions
   of one provider whose intervals intersect. *)
ConcurrentCreateExclusive ==
  /\ ~DoubleBooked
  /\ \A p, q \in Procs :
       ( /\ p # q
         /\ calls[p].pc \in {"inserted", "done"} /\ calls[p].result = "ok"
         /\ calls[q].pc \in {"inserted", "done"} /\ calls[q].result = "ok"
         /\ calls[p].mentorId = calls[q].mentorId )
       => ~( /\ calls[p].scheduledAt < calls[q].scheduledAt + calls[q].durationMinutes
             /\ calls[q].scheduledAt < calls[p].scheduledAt + calls[p].durationMinutes )

(* C2: with the calls executed one at a time, no two SCHEDULED or
   IN_PROGRESS sessions of the same provider have intersecting intervals
   [scheduledAt, scheduledEndAt). *)
NoDoubleBooking == ~DoubleBooked

(* two blocking sessions of one provider back to back, one of them in
   progress, and a further booking just refused as a conflict *)
NoDoubleBookingWitness ==
  /\ \E i, j \in DOMAIN sessions :
       /\ sessions[i].mentorProfileId = sessions[j].mentorProfileId
       /\ sessions[i].status = "IN_PROGRESS" /\ sessions[j].status = "SCHEDULED"
       /\ sessions[i].scheduledEndAt = sessions[j].scheduledAt
  /\ last.result = "Conflict"

(* what checkAvailability answers on the window of the last createSession *)
CheckOnCreatedWindow ==
  checkAvailability(sessions, mentorAvailability,
                    sessions[justCreated.id].mentorProfileId,
                    justCreated.scheduledAt, justCreated.durationMinutes, NoId)

ReportsOnly(id) ==
  {[isAvailable |-> FALSE, message |-> "conflict", conflictingSessionId |-> id]}

StillOnCreatedWindow ==
  /\ sessions[justCreated.id].scheduledAt = justCreated.scheduledAt
  /\ sessions[justCreated.id].scheduledEndAt =
       justCreated.scheduledAt + justCreated.durationMinutes

(* C3 as stated: after a successful createSession, checkAvailability on
   the identical window reports unavailable with the id of the created
   session as long as that session is SCHEDULED or IN_PROGRESS. *)
CreatedWindowStaysTaken ==
  (justCreated.id # NoId /\ Blocking(sessions[justCreated.id]))
    => CheckOnCreatedWindow = ReportsOnly(justCreated.id)

(* C3 amended: after a successful createSession, checkAvailability on the
   identical window reports unavailable with the id of the created session
   as long as that session is SCHEDULED or IN_PROGRESS and has not been
   rescheduled away from that window. *)
CreatedWindowTakenUntilRescheduled ==
  (justCreated.id # NoId /\ Blocking(sessions[justCreated.id])
     /\ StillOnCreatedWindow)
    => CheckOnCreatedWindow = ReportsOnly(justCreated.id)

(* the created session is in progress on its window, next to another
   blocking session of the same provider *)
CreatedWindowWitness ==
  /\ justCreated.id # NoId
  /\ sessions[justCreated.id].status = "IN_PROGRESS"
  /\ StillOnCreatedWindow
  /\ \E j \in DOMAIN sessions :
       /\ j # justCreated.id
       /\ sessions[j].mentorProfileId = sessions[justCreated.id].mentorProfileId
       /\ Blocking(sessions[j])

StatusEdges ==
  { <<"SCHEDULED", "IN_PROGRESS">>, <<"SCHEDULED", "COMPLETED">>,
    <<"IN_PROGRESS", "COMPLETED">>, <<"SCHEDULED", "CANCELLED_BY_MENTOR">>,
    <<"SCHEDULED", "CANCELLED_BY_MENTEE">> }

TerminalStatuses == {"COMPLETED", "CANCELLED_BY_MENTOR", "CANCELLED_BY_MENTEE"}

(* C4: with the calls executed one at a time, a session is created
   SCHEDULED and its status only changes along SCHEDULED->IN_PROGRESS,
   SCHEDULED->COMPLETED, IN_PROGRESS->COMPLETED and SCHEDULED->CANCELLED_*;
   a COMPLETED or CANCELLED_* status never changes again. *)
StatusFollowsLifecycle ==
  [][ /\ \A i \in DOMAIN sessions :
           /\ i \in DOMAIN sessions'
           /\ sessions'[i].status # sessions[i].status
                => <<sessions[i].status, sessions'[i].status>> \in StatusEdges
           /\ sessions[i].status \in TerminalStatuses
                => sessions'[i].status = sessions[i].status
      /\ \A i \in DOMAIN sessions' \ DOMAIN sessions :
           sessions'[i].status = "SCHEDULED" ]_vars

(* a session that went through IN_PROGRESS to COMPLETED, and a cancel of it
   refused *)
StatusFollowsLifecycleWitness ==
  /\ \E i \in DOMAIN sessions :
       sessions[i].status = "COMPLETED" /\ sessions[i].startedAt # NoTime
  /\ \A i \in DOMAIN sessions : sessions[i].status \in TerminalStatuses
  /\ last.op = "cancelSession" /\ last.result = "Forbidden"

(* C5: startSession moves the session to IN_PROGRESS and sets startedAt
   exactly when the actor is the session's mentor, the status is SCHEDULED
   and now >= scheduledAt - 15 minutes; otherwise it throws Forbidden and
   the session table is unchanged. *)
StartOnlyByMentorInWindow ==
  [][ last'.op = "startSession" =>
        \A id \in DOMAIN sessions, u \in Users :
          startSession(id, u) =>
            IF /\ MentorProfiles[sessions[id].mentorProfileId].userId = u
               /\ sessions[id].status = "SCHEDULED"
               /\ now >= sessions[id].scheduledAt - 15
              THEN /\ last'.result = "ok"
                   /\ sessions' = [sessions EXCEPT ![id].status = "IN_PROGRESS",
                                                   ![id].startedAt = now]
              ELSE /\ last'.result = "Forbidden"
                   /\ sessions' = sessions ]_vars

(* a session started exactly 15 minutes before its scheduled time *)
StartOnlyByMentorInWindowWitness ==
  /\ last.op = "startSession" /\ last.result = "ok"
  /\ \E i \in DOMAIN sessions :
       /\ sessions[i].status = "IN_PROGRESS"
       /\ sessions[i].startedAt = sessions[i].scheduledAt - 15

(* C6: the refund percentage cancelSession returns is 100 when the session
   starts in 24 hours or more, 50 when it starts in at least 2 and less than
   24 hours, 0 when it starts in less than 2 hours, and never anything
   else. *)
RefundFollowsTiers ==
  [][ (last'.op = "cancelSession" /\ last'.result = "ok") =>
        \A id \in DOMAIN sessions, u \in Users, r \in Reasons :
          cancelSession(id, u, r) =>
            LET minutesUntil == sessions[id].scheduledAt - now
            IN /\ last'.refundPercentage \in {0, 50, 100}
               /\ last'.refundPercentage = 100 <=> minutesUntil >= 24 * 60
               /\ last'.refundPercentage = 50
                    <=> (minutesUntil >= 2 * 60 /\ minutesUntil < 24 * 60)
               /\ last'.refundPercentage = 0 <=> minutesUntil < 2 * 60 ]_vars

(* a cancellation exactly 2 hours before the start, refunded at 50 *)
RefundFollowsTiersWitness ==
  /\ last.op = "cancelSession" /\ last.result = "ok"
  /\ last.refundPercentage = 50
  /\ \E i \in DOMAIN sessions :
       /\ sessions[i].status \in {"CANCELLED_BY_MENTOR", "CANCELLED_BY_MENTEE"}
       /\ sessions[i].cancelledAt = sessions[i].scheduledAt - 2 * 60

(* C7: cancelSession succeeds exactly when the actor is the session's
   mentor or mentee and the status is SCHEDULED; it then writes
   CANCELLED_BY_MENTOR for the mentor and CANCELLED_BY_MENTEE for the mentee
   together with cancelledAt, the actor and the reason; any other call on a
   stored session throws Forbidden and changes no session. *)
CancelOnlyByParticipantWhenScheduled ==
  [][ last'.op = "cancelSession" =>
        \A id \in DOMAIN sessions, u \in Users, r \in Reasons :
          cancelSession(id, u, r) =>
            LET byMentor == MentorProfiles[sessions[id].mentorProfileId].userId = u
                byMentee == MenteeProfiles[sessions[id].menteeProfileId].userId = u
            IN IF (byMentor \/ byMentee) /\ sessions[id].status = "SCHEDULED"
                 THEN /\ last'.result = "ok"
                      /\ sessions' = [sessions EXCEPT
                           ![id].status = IF byMentor THEN "CANCELLED_BY_MENTOR"
                                          ELSE "CANCELLED_BY_MENTEE",
                           ![id].cancelledAt = now,
                           ![id].cancelledById = u,
                           ![id].cancellationReason = r]
                 ELSE /\ last'.result = "Forbidden"
                      /\ sessions' = sessions ]_vars

(* one session cancelled by its mentor and one by its mentee, each with its
   cancellation fields *)
CancelOnlyByParticipantWhenScheduledWitness ==
  \E i, j \in DOMAIN sessions :
    /\ sessions[i].status = "CANCELLED_BY_MENTOR"
    /\ sessions[i].cancelledById = MentorProfiles[sessions[i].mentorProfileId].userId
    /\ sessions[j].status = "CANCELLED_BY_MENTEE"
    /\ sessions[j].cancelledById = MenteeProfiles[sessions[j].menteeProfileId].userId
    /\ sessions[j].cancelledAt = now /\ sessions[j].cancellationReason \in Reasons
    /\ last.op = "cancelSession" /\ last.result = "ok"

(* C8: completeSession succeeds exactly when the actor is the session's
   mentor and the status is SCHEDULED or IN_PROGRESS; it then writes
   COMPLETED and completedAt and adds exactly 1 to completedSessions of the
   mentor and of the mentee; any other call on a stored session throws
   Forbidden. *)
CompleteOnlyByMentorWhenOpen ==
  [][ last'.op = "completeSession" =>
        \A id \in DOMAIN sessions, u \in Users :
          completeSession(id, u) =>
            LET m == sessions[id].mentorProfileId
                e == sessions[id].menteeProfileId
            IN IF /\ MentorProfiles[m].userId = u
                  /\ sessions[id].status \in {"SCHEDULED", "IN_PROGRESS"}
                 THEN /\ last'.result = "ok"
                      /\ sessions' = [sessions EXCEPT ![id].status = "COMPLETED",
                                                      ![id].completedAt = now]
                      /\ mentorStats'[m].completedSessions =
                           mentorStats[m].completedSessions + 1
                      /\ menteeStats'[e].completedSessions =
                           menteeStats[e].completedSessions + 1
                 ELSE last'.result = "Forbidden" ]_vars

(* a session completed without having been started, counted once on both
   profiles *)
CompleteOnlyByMentorWhenOpenWitness ==
  /\ last.op = "completeSession" /\ last.result = "ok"
  /\ \E i \in DOMAIN sessions :
       /\ sessions[i].status = "COMPLETED"
       /\ sessions[i].startedAt = NoTime
       /\ sessions[i].completedAt = now
       /\ mentorStats[sessions[i].mentorProfileId].completedSessions = 1
       /\ menteeStats[sessions[i].menteeProfileId].completedSessions = 1

(* C9: cancelSession and completeSession on a COMPLETED or CANCELLED_*
   session throw Forbidden and leave the sessions and the counters of both
   profiles as they were. *)
TerminalSessionRejectsCalls ==
  [][ last'.op \in {"cancelSession", "completeSession"} =>
        \A id \in DOMAIN sessions, u \in Users, r \in Reasons :
          ( /\ sessions[id].status \in TerminalStatuses
            /\ (cancelSession(id, u, r) \/ completeSession(id, u)) )
          => /\ last'.result = "Forbidden"
             /\ sessions' = sessions
             /\ mentorStats' = mentorStats
             /\ menteeStats' = menteeStats ]_vars

(* a completed session whose completion was asked for again and refused *)
TerminalSessionRejectsCallsWitness ==
  /\ last.op = "completeSession" /\ last.result = "Forbidden"
  /\ sessions # <<>>
  /\ \A i \in DOMAIN sessions :
       /\ sessions[i].status = "COMPLETED"
       /\ mentorStats[sessions[i].mentorProfileId].completedSessions = 1

(* the result the guards of createSession call for, first failure first *)
ClaimedCreateResult(userId, mentorId, scheduledAt, durationMinutes) ==
  IF \/ ~(\E e \in MenteeIds : MenteeProfiles[e].userId = userId)
     \/ mentorId \notin MentorIds
    THEN "NotFound"
  ELSE IF \/ MentorProfiles[mentorId].verificationStatus # "APPROVED"
          \/ ~MentorProfiles[mentorId].isAcceptingStudents
    THEN "Forbidden"
  ELSE IF \/ ~(scheduledAt > now)
          \/ durationMinutes < MentorProfiles[mentorId].minSessionDuration
          \/ durationMinutes > MentorProfiles[mentorId].maxSessionDuration
    THEN "BadRequest"
  ELSE IF \E r \in checkAvailability(sessions, mentorAvailability, mentorId,
                                     scheduledAt, durationMinutes, NoId) :
            ~r.isAvailable
    THEN "Conflict"
  ELSE "ok"

CreateResultsAsClaimed ==
  \A u \in Bookers, m \in MentorIdInputs, t \in Starts, d \in Durations :
    CreateOutcomes(sessions, mentorAvailability, now, u, m, t, d)
      = {ClaimedCreateResult(u, m, t, d)}

CreatePersistsOnlyWhenAllowed ==
  /\ (last'.op = "createSession" /\ last'.result # "ok")
       => /\ sessions' = sessions
          /\ mentorStats' = mentorStats /\ menteeStats' = menteeStats
  /\ Len(sessions') > Len(sessions)
       => LET n == sessions'[Len(sessions')]
          IN /\ last'.op = "createSession" /\ last'.result = "ok"
             /\ Len(sessions') = Len(sessions) + 1
             /\ n.status = "SCHEDULED"
             /\ ClaimedCreateResult(MenteeProfiles[n.menteeProfileId].userId,
                                    n.mentorProfileId, n.scheduledAt,
                                    n.durationMinutes) = "ok"

(* C10: createSession persists a session only if both profiles exist, the
   mentor is APPROVED and accepting, the start is after now, the duration
   is within the mentor's limits and checkAvailability reports available;
   it throws NotFound, Forbidden, BadRequest or Conflict for the first of
   these that fails, and then creates no session. *)
CreateGuarded ==
  []CreateResultsAsClaimed /\ [][CreatePersistsOnlyWhenAllowed]_vars

(* with one session booked, a further booking refused as a conflict *)
CreateGuardedWitness ==
  /\ justCreated.id # NoId
  /\ Len(sessions) = 1
  /\ last.op = "createSession" /\ last.result = "Conflict"

(* the sessions stored for a profile *)
SessionsOfMentor(m) == {i \in DOMAIN sessions : sessions[i].mentorProfileId = m}
SessionsOfMentee(e) == {i \in DOMAIN sessions : sessions[i].menteeProfileId = e}

CountersMatchSessions ==
  /\ \A m \in MentorIds :
       mentorStats[m].totalSessions = Cardinality(SessionsOfMentor(m))
  /\ \A e \in MenteeIds :
       menteeStats[e].totalSessions = Cardinality(SessionsOfMentee(e))

(* C11: a createSession call that ends with an error, the failure of the
   insert or of the counter update included, leaves the sessions and the
   totalSessions counters of both profiles as they were before the call, so
   that no session is stored without its increments and no increment
   without its session. *)
FailedCreateStoresNothing ==
  /\ []CountersMatchSessions
  /\ [][ (last'.op = "createSession" /\ last'.result # "ok")
          => /\ sessions' = sessions
             /\ mentorStats' = mentorStats
             /\ menteeStats' = menteeStats ]_vars

CreatedSessionCountedOnce ==
  (last'.op = "createSession" /\ last'.result = "ok"
     /\ Len(sessions') = Len(sessions) + 1)
    => LET n == sessions'[Len(sessions')]
       IN /\ \A m \in MentorIds :
               mentorStats'[m].totalSessions =
                 mentorStats[m].totalSessions
                   + (IF m = n.mentorProfileId THEN 1 ELSE 0)
          /\ \A e \in MenteeIds :
               menteeStats'[e].totalSessions =
                 menteeStats[e].totalSessions
                   + (IF e = n.menteeProfileId THEN 1 ELSE 0)

(* C12: each successful createSession adds exactly 1 to totalSessions of the
   session's mentor and of its mentee and to no other profile, so that
   after any sequence of calls the totalSessions of a profile is the number
   of sessions created for it (the counters start at 0). *)
TotalSessionsCountsCreated ==
  []CountersMatchSessions /\ [][CreatedSessionCountedOnce]_vars

(* two sessions booked by one mentee with two different mentors *)
TotalSessionsCountsCreatedWitness ==
  /\ last.op = "createSession" /\ last.result = "ok"
  /\ Len(sessions) = 2
  /\ mentorStats["m1"].totalSessions = 1
  /\ mentorStats["m2"].totalSessions = 1
  /\ menteeStats["e1"].totalSessions = 2

(* the candidate of the last checkAvailability call *)
QueryStart == query.datetime
QueryEnd == query.datetime + query.durationMinutes

(* C13: checkAvailability reports a session conflict exactly when an active
   session [s, e) of the mentor and the candidate [start, end) satisfy
   start < e and end > s; a candidate that starts when the session ends, or
   ends when it starts, is not a conflict. *)
ConflictTestIsIntersection ==
  query.op = "checkAvailability" =>
    \A r \in query.results :
      r.message = "conflict" <=>
        \E i \in DOMAIN sessions :
          /\ sessions[i].mentorProfileId = query.mentorId
          /\ sessions[i].status \in {"SCHEDULED", "IN_PROGRESS"}
          /\ QueryStart < sessions[i].scheduledEndAt
          /\ QueryEnd > sessions[i].scheduledAt

(* a candidate of the session's mentor that starts exactly when the session
   ends, answered without a conflict *)
ConflictTestIsIntersectionWitness ==
  /\ query.op = "checkAvailability"
  /\ query.mentorId = sessions[1].mentorProfileId
  /\ QueryStart = sessions[1].scheduledEndAt
  /\ \A r \in query.results : r.message # "conflict"

(* C14: the conflict test gives the same answer with the candidate and the
   stored session exchanged. *)
ConflictTestSymmetric ==
  query.op = "checkAvailability" =>
    \A i \in DOMAIN sessions :
      SessionConflicts(sessions[i], QueryStart, QueryEnd)
        <=> SessionConflicts([scheduledAt |-> QueryStart, scheduledEndAt |-> QueryEnd],
                             sessions[i].scheduledAt, sessions[i].scheduledEndAt)

(* a candidate that begins before the session and ends inside it: a
   conflict in both directions *)
ConflictTestSymmetricWitness ==
  /\ query.op = "checkAvailability"
  /\ QueryStart < sessions[1].scheduledAt
  /\ QueryEnd > sessions[1].scheduledAt /\ QueryEnd < sessions[1].scheduledEndAt
  /\ SessionConflicts(sessions[1], QueryStart, QueryEnd)

(* the windows that apply on the date of an instant: enabled, of its
   weekday, and recurring or for that very date *)
WindowsOnDate(mentorId, datetime) ==
  {w \in mentorAvailability :
     /\ w.mentorId = mentorId /\ w.isAvailable
     /\ w.dayOfWeek = (datetime \div (24 * 60)) % 7
     /\ (w.isRecurring \/ w.specificDate = datetime - (datetime % (24 * 60)))}

InsideWindow(w, datetime, durationMinutes) ==
  /\ (w.startTime % (24 * 60)) <= (datetime % (24 * 60))
  /\ (datetime % (24 * 60)) + durationMinutes <= (w.endTime % (24 * 60))

(* C15: when no active session conflicts, checkAvailability answers from
   the windows that apply on the candidate's date: 'not available on this
   day' when there is none, available when the candidate's minute-of-day
   interval lies inside at least one of them, 'outside availability window'
   otherwise; for every set of windows. *)
AnswerFollowsWindowsOfDate ==
  query.op = "checkAvailability" =>
    \A r \in query.results :
      r.message # "conflict" =>
        r.message =
          IF WindowsOnDate(query.mentorId, query.datetime) = {}
            THEN "not available on this day"
          ELSE IF \E w \in WindowsOnDate(query.mentorId, query.datetime) :
                    InsideWindow(w, query.datetime, query.durationMinutes)
            THEN "available"
          ELSE "outside window"

(* the active sessions of a mentor that intersect a candidate *)
IntersectingSessions(mentorId, datetime, durationMinutes) ==
  {i \in DOMAIN sessions :
     /\ sessions[i].mentorProfileId = mentorId
     /\ Blocking(sessions[i])
     /\ datetime < sessions[i].scheduledEndAt
     /\ datetime + durationMinutes > sessions[i].scheduledAt}

(* C16: when several active sessions of the mentor conflict with the
   candidate, the conflictingSessionId that checkAvailability reports is
   the one of the conflicting session with the earliest scheduledAt, so
   that the answer on given stored sessions is always the same. *)
ConflictReportsEarliestStart ==
  \A m \in MentorIds, t \in Starts, d \in Durations :
    \A r \in checkAvailability(sessions, mentorAvailability, m, t, d, NoId) :
      r.message = "conflict" =>
        /\ r.conflictingSessionId \in IntersectingSessions(m, t, d)
        /\ \A i \in IntersectingSessions(m, t, d) :
             sessions[r.conflictingSessionId].scheduledAt <= sessions[i].scheduledAt

(* the slots of the last getAvailableSlots call as (start, end) minutes *)
ReturnedSlots ==
  {<<query.slots[i].startTime[1] * 60 + query.slots[i].startTime[2],
     query.slots[i].endTime[1] * 60 + query.slots[i].endTime[2]>> :
     i \in DOMAIN query.slots}

(* the enabled windows of the mentor on the weekday of the date *)
EnabledWindowsOfWeekday(mentorId, date) ==
  {w \in mentorAvailability :
     /\ w.mentorId = mentorId /\ w.isAvailable
     /\ w.dayOfWeek = (date \div (24 * 60)) % 7}

(* the grid of a set of windows: start + k * min(duration, 30), as long as
   the slot ends inside the window *)
GridSlots(windows, duration) ==
  {<<(w.startTime % (24 * 60)) + k * (IF duration < 30 THEN duration ELSE 30),
     (w.startTime % (24 * 60)) + k * (IF duration < 30 THEN duration ELSE 30)
       + duration>> : w \in windows, k \in 0 .. (24 * 60) \div 15}

(* a slot of the date that intersects an active session of the mentor *)
SlotTaken(mentorId, date, slot) ==
  \E i \in DOMAIN sessions :
    /\ sessions[i].mentorProfileId = mentorId
    /\ sessions[i].status \in {"SCHEDULED", "IN_PROGRESS"}
    /\ date + slot[1] < sessions[i].scheduledEndAt
    /\ date + slot[2] > sessions[i].scheduledAt

ExpectedSlots(windows) ==
  {slot \in GridSlots(windows, query.durationMinutes) :
     /\ \E w \in windows : /\ slot[1] >= w.startTime % (24 * 60)
                           /\ slot[2] <= w.endTime % (24 * 60)
                           /\ (slot[1] - (w.startTime % (24 * 60)))
                                 % (IF query.durationMinutes < 30
                                      THEN query.durationMinutes ELSE 30) = 0
     /\ ~SlotTaken(query.mentorId, query.date, slot)}

(* C17 as stated: getAvailableSlots returns exactly the grid candidates of
   every enabled window of the weekday of the date that intersect no
   active session of the mentor on that date. *)
SlotsOfEveryWeekdayWindow ==
  (query.op = "getAvailableSlots" /\ query.result = "ok") =>
    ReturnedSlots = ExpectedSlots(EnabledWindowsOfWeekday(query.mentorId, query.date))

(* C17 amended: getAvailableSlots returns exactly the grid candidates of
   every enabled window of that weekday that is recurring or whose
   specificDate is the date, minus those that intersect an active session
   of the mentor on that date; every returned slot lies inside such a
   window and intersects no active session. *)
SlotsOfWindowsOfDate ==
  (query.op = "getAvailableSlots" /\ query.result = "ok") =>
    /\ ReturnedSlots = ExpectedSlots(WindowsOnDate(query.mentorId, query.date))
    /\ \A slot \in ReturnedSlots :
         /\ \E w \in WindowsOnDate(query.mentorId, query.date) :
              /\ (w.startTime % (24 * 60)) <= slot[1]
              /\ slot[2] <= (w.endTime % (24 * 60))
         /\ ~SlotTaken(query.mentorId, query.date, slot)
         /\ slot[2] = slot[1] + query.durationMinutes

(* a slot of 45 minutes returned while two windows apply on the date, a
   session of that date takes another candidate and a window of another
   date is stored *)
SlotsOfWindowsOfDateWitness ==
  /\ query.op = "getAvailableSlots" /\ query.result = "ok"
  /\ query.durationMinutes = 45
  /\ Len(query.slots) >= 1
  /\ Cardinality(WindowsOnDate(query.mentorId, query.date)) >= 2
  /\ \E w \in mentorAvailability :
       /\ w.isAvailable /\ ~w.isRecurring /\ w.specificDate # query.date
       /\ w.dayOfWeek = (query.date \div (24 * 60)) % 7
  /\ \E slot \in GridSlots(WindowsOnDate(query.mentorId, query.date), 45) :
       /\ \E w \in WindowsOnDate(query.mentorId, query.date) :
            (w.startTime % (24 * 60)) <= slot[1] /\ slot[2] <= (w.endTime % (24 * 60))
       /\ SlotTaken(query.mentorId, query.date, slot)

(* C18: every stored availability window has its start time of day before
   its end time of day, after any sequence of addAvailability,
   updateAvailability, deleteAvailability and bulkCreateWeeklyAvailability
   calls; a write that would store start >= end is rejected. *)
WindowsStartBeforeEnd ==
  \A w \in mentorAvailability :
    (w.startTime % (24 * 60)) < (w.endTime % (24 * 60))

(* C19: no two enabled windows of one mentor on the same dayOfWeek have
   intersecting time-of-day intervals, after any sequence of
   addAvailability, updateAvailability, deleteAvailability and
   bulkCreateWeeklyAvailability calls. *)
EnabledWindowsDisjoint ==
  \A v, w \in mentorAvailability :
    ( /\ v.id # w.id
      /\ v.mentorId = w.mentorId /\ v.dayOfWeek = w.dayOfWeek
      /\ v.isAvailable /\ w.isAvailable )
    => ~( /\ (v.startTime % (24 * 60)) < (w.endTime % (24 * 60))
          /\ (w.startTime % (24 * 60)) < (v.endTime % (24 * 60)) )

(* C20: each of the seven factors of the compatibility result has a score
   between 0 and its weight (100, 80, 80, 50, 40, 30, 20), and the final
   score is an integer between 0 and 100. *)
ScoresWithinWeights ==
  query.op = "calculateCompatibility" =>
    /\ Len(query.result.reasons) = 7
    /\ \A i \in 1 .. 7 :
         /\ query.result.reasons[i].weight = <<100, 80, 80, 50, 40, 30, 20>>[i]
         /\ query.result.reasons[i].score \in 0 .. query.result.reasons[i].weight
    /\ query.result.score \in 0 .. 100

(* a new Muslim without Arabic and a free, experienced, beginner-friendly
   mentor of the same place: every factor at its weight, the bonus for
   beginners capped, a final score of 100 *)
ScoresWithinWeightsWitness ==
  /\ query.op = "calculateCompatibility"
  /\ query.mentee.learningContext = "NEW_MUSLIM"
  /\ query.mentee.currentLevel = "NO_ARABIC"
  /\ query.mentor.experiencedWithNewMuslims /\ query.mentor.beginnerFriendly
  /\ \A i \in 1 .. 7 :
       query.result.reasons[i].score = query.result.reasons[i].weight
  /\ query.result.score = 100

(* the result of the last computation of a score, when there is one *)
Scored ==
  /\ query.op \in {"calculateCompatibility", "calculateCompatibilityScore"}
  /\ "score" \in DOMAIN query.result

SumOfScores(reasons) ==
  reasons[1].score + reasons[2].score + reasons[3].score + reasons[4].score
    + reasons[5].score + reasons[6].score + reasons[7].score

LevelOfScore(score) ==
  CASE score >= 80 -> "EXCELLENT"
    [] score >= 60 /\ score < 80 -> "HIGH"
    [] score >= 40 /\ score < 60 -> "MEDIUM"
    [] score >= 20 /\ score < 40 -> "LOW"
    [] OTHER -> "POOR"

(* C21: a compatibility result has exactly seven factors, its score is the
   sum of the seven factor scores divided by 400, times 100, rounded to the
   nearest integer, its level follows the thresholds 80, 60, 40 and 20, and
   isRecommended is true exactly when the score is at least 60. *)
ScoreIsRoundedShareOfWeight ==
  Scored =>
    /\ Len(query.result.reasons) = 7
    /\ query.result.score = Round(SumOfScores(query.result.reasons) * 100, 400)
    /\ query.result.level = LevelOfScore(query.result.score)
    /\ query.op = "calculateCompatibilityScore" =>
         (query.result.isRecommended <=> query.result.score >= 60)

Elements(seq) == {seq[i] : i \in DOMAIN seq}

(* the languages asked for: those of the preferences when the preferences
   name any, those of the mentee's profile otherwise *)
RequestedLanguages ==
  Elements(IF Has(query.preferences, "preferredLanguages")
              /\ Len(query.preferences.preferredLanguages) > 0
             THEN query.preferences.preferredLanguages
             ELSE query.mentee.preferredLanguages)

(* C22: the language factor is 80 times the share of the requested languages
   that the provider speaks, rounded, and 0 when no language is requested; it
   is 80 exactly when the provider speaks every requested language and 0 when
   there is no common language. *)
LanguageFactorIsSharedShare ==
  Scored =>
    LET requested == RequestedLanguages
        common == requested \cap Elements(query.mentor.languages)
        score == query.result.reasons[3].score
    IN /\ query.result.reasons[3].category = "LANGUAGES"
       /\ score = IF requested = {} THEN 0
                  ELSE Round(80 * Cardinality(common), Cardinality(requested))
       /\ requested # {} =>
            (score = 80 <=> requested \subseteq Elements(query.mentor.languages))
       /\ common = {} => score = 0

(* the mentor does not teach learners of the mentee's category *)
CategoryNotServed ==
  \/ query.mentee.learnerCategory = "CHILD" /\ ~query.mentor.teachesChildren
  \/ query.mentee.learnerCategory = "TEENAGER" /\ ~query.mentor.teachesTeenagers
  \/ query.mentee.learnerCategory = "ADULT" /\ ~query.mentor.teachesAdults

(* C23: when the provider does not serve the requester's learner category,
   the category factor is 0 and, whatever the other six factors are, the
   final score is below 60 and the level is neither HIGH nor EXCELLENT. *)
UnservedCategoryCapsScore ==
  (Scored /\ CategoryNotServed) =>
    /\ query.result.reasons[1].category = "LEARNER_CATEGORY"
    /\ query.result.reasons[1].score = 0
    /\ query.result.score < 60
    /\ query.result.level \notin {"HIGH", "EXCELLENT"}

(* the list a successful findCompatibleMentors call has returned *)
Ranked == query.op = "findCompatibleMentors" /\ "mentors" \in DOMAIN query.result

(* C24: the list findCompatibleMentors returns is non-increasing by score,
   holds no mentor whose score is below 20, keeps mentors of equal score in
   the order of the pool, and has at most limit entries, where limit is 10
   when none is requested and is never above 50. *)
RankingOrderedFilteredLimited ==
  Ranked =>
    LET mentors == query.result.mentors
        limit == IF Has(query.preferences, "limit")
                   THEN query.preferences.limit ELSE 10
    IN /\ \A i, j \in DOMAIN mentors :
            i < j => /\ mentors[i].compatibilityScore >= mentors[j].compatibilityScore
                     /\ mentors[i].compatibilityScore = mentors[j].compatibilityScore
                          => mentors[i].id < mentors[j].id
       /\ \A i \in DOMAIN mentors : mentors[i].compatibilityScore >= 20
       /\ Len(mentors) <= limit
       /\ limit <= 50
       /\ query.result.total = Len(mentors)

(* a pool of more than ten mentors with ties, cut to the default limit *)
RankingOrderedFilteredLimitedWitness ==
  /\ Ranked
  /\ ~Has(query.preferences, "limit")
  /\ Len(query.mentors) > 10
  /\ Len(query.result.mentors) = 10
  /\ \E i, j \in DOMAIN query.result.mentors :
       /\ i < j
       /\ query.result.mentors[i].compatibilityScore
            = query.result.mentors[j].compatibilityScore
  /\ \E i, j \in DOMAIN query.result.mentors :
       query.result.mentors[i].compatibilityScore
         > query.result.mentors[j].compatibilityScore

(* C25: after any sequence of createSession and updateSession calls, every
   stored session ends at its start plus its duration: scheduledEndAt =
   scheduledAt + durationMinutes, also after an update of the duration alone
   or of the start alone. *)
EndIsStartPlusDuration ==
  \A i \in DOMAIN sessions :
    sessions[i].scheduledEndAt = sessions[i].scheduledAt + sessions[i].durationMinutes

(* the calls of the given kinds that went through on the session *)
SucceededCalls(ops, id) ==
  {p \in Procs : /\ calls[p].op \in ops
                 /\ calls[p].pc = "done"
                 /\ calls[p].result = "ok"
                 /\ calls[p].sessionId = id}

(* C26: when cancelSession, startSession and completeSession calls on one
   SCHEDULED session interleave, each a read of the status followed later by
   a write, at most one call that produces a terminal status succeeds, and a
   status that has become COMPLETED or CANCELLED_* is never overwritten. *)
TerminalStaysFinalUnderRace ==
  /\ [](\A i \in DOMAIN sessions :
          Cardinality(SucceededCalls({"cancelSession", "completeSession"}, i)) <= 1)
  /\ [][\A i \in DOMAIN sessions :
          sessions[i].status \in TerminalStatuses
            => sessions'[i].status = sessions[i].status]_vars

(* no call is between its read and its last write *)
NoCallInFlight == \A p \in Procs : calls[p].pc \in {"idle", "done"}

(* C28: completion is counted once per session: whenever no call is in
   flight, also after two completeSession calls on one session interleaved,
   each mentor's and each mentee's completedSessions is the number of its
   sessions in status COMPLETED. *)
CompletedCountedOncePerSession ==
  NoCallInFlight =>
    /\ \A m \in MentorIds :
         mentorStats[m].completedSessions
           = Cardinality({i \in SessionsOfMentor(m) : sessions[i].status = "COMPLETED"})
    /\ \A e \in MenteeIds :
         menteeStats[e].completedSessions
           = Cardinality({i \in SessionsOfMentee(e) : sessions[i].status = "COMPLETED"})

(* C27: getAvailableSlots terminates and returns a finite list for every
   existing mentor, every date and every durationMinutes the controller
   passes, negative ones included, for every set of windows: a call that is
   in its loop eventually returns. *)
SlotsCallReturns ==
  (query # NoQuery /\ query.op = "getAvailableSlots" /\ query.pc = "loop")
    ~> (query # NoQuery /\ query.op = "getAvailableSlots" /\ query.pc = "returned")

(* C29: every slot getAvailableSlots returns for a mentor, a date and a
   duration is a slot checkAvailability accepts: called for the mentor, the
   date at the slot's startTime and the duration, on the same windows and
   sessions, it answers isAvailable = true; also for a mentor with several
   windows on the weekday and with windows of one date. *)
ReturnedSlotsPassCheck ==
  (query.op = "getAvailableSlots" /\ query.result = "ok") =>
    \A i \in DOMAIN query.slots :
      \A r \in checkAvailability(sessions, mentorAvailability, query.mentorId,
                                  query.date + timeStringToMinutes(query.slots[i].startTime),
                                  query.durationMinutes, NoId) :
        r.isAvailable

(* a window or a pattern entry as its day, first minute and end minute *)
WindowSpan(w) ==
  <<w.dayOfWeek, extractTimeMinutes(w.startTime), extractTimeMinutes(w.endTime)>>
EntrySpan(entry) ==
  <<entry.dayOfWeek, entry.startTime[1] * 60 + entry.startTime[2],
    entry.endTime[1] * 60 + entry.endTime[2]>>

(* an entry that does not start before its end, or two entries of one day
   whose half-open intervals intersect *)
PatternRefused(pattern) ==
  \/ \E k \in DOMAIN pattern : EntrySpan(pattern[k])[2] >= EntrySpan(pattern[k])[3]
  \/ \E i, j \in DOMAIN pattern :
       /\ i # j
       /\ EntrySpan(pattern[i])[1] = EntrySpan(pattern[j])[1]
       /\ EntrySpan(pattern[i])[2] < EntrySpan(pattern[j])[3]
       /\ EntrySpan(pattern[j])[2] < EntrySpan(pattern[i])[3]

RecurringOf(windows, mentorId) ==
  {w \in windows : w.mentorId = mentorId /\ w.isRecurring}

(* C30: bulkCreateWeeklyAvailability validates before it mutates: with an
   entry whose start is not before its end, with two overlapping entries on
   one day, or called by someone who is not the mentor's owner, it fails and
   the stored windows are unchanged; when it succeeds the mentor's recurring
   windows are exactly the entries of the pattern and every other window is
   unchanged. *)
BulkValidatesBeforeItMutates ==
  [][ last'.op = "bulkCreateWeeklyAvailability" =>
        \A u \in WindowOwners, pattern \in WeeklyPatterns :
          bulkCreateWeeklyAvailability("m1", u, pattern) =>
            IF PatternRefused(pattern) \/ MentorProfiles["m1"].userId # u
              THEN /\ last'.result # "ok"
                   /\ mentorAvailability' = mentorAvailability
              ELSE /\ last'.result = "ok"
                   /\ {WindowSpan(w) : w \in RecurringOf(mentorAvailability', "m1")}
                        = {EntrySpan(pattern[k]) : k \in DOMAIN pattern}
                   /\ Cardinality(RecurringOf(mentorAvailability', "m1")) = Len(pattern)
                   /\ mentorAvailability' \ RecurringOf(mentorAvailability', "m1")
                        = mentorAvailability \ RecurringOf(mentorAvailability, "m1")
    ]_vars

(* a pattern stored beside a window of one date that was kept *)
BulkValidatesBeforeItMutatesWitness ==
  /\ last.op = "bulkCreateWeeklyAvailability" /\ last.result = "ok"
  /\ RecurringOf(mentorAvailability, "m1") # {}
  /\ \E w \in mentorAvailability : w.mentorId = "m1" /\ ~w.isRecurring

====
